---- MODULE Spec2Model ----
(***************************************************************************)
(* Request-gatekeeping pipeline of the clinical-sample service:            *)
(* app/middleware/security_middleware.py, app/middleware/                  *)
(* logging_middleware.py, app/core/exceptions.py and the middleware        *)
(* assembly of app/main.py.                                                *)
(*                                                                         *)
(* Time is counted in ticks, TicksPerSecond ticks to a second, so that the *)
(* sub-second part of time.time() and the truncation done by int() are     *)
(* both visible.                                                           *)
(***************************************************************************)
EXTENDS Integers, Sequences, FiniteSets, TLC

\* ------------------------------------------------------------------ bounds

\* Clock resolution of the model: ticks per second.
TicksPerSecond == 2

\* Number of requests that reach RateLimitMiddleware.dispatch in one run.
MaxArrivals == 3

\* The requests sent to the assembled application.
MaxRequests == 2

\* How many times the clock advances while concurrent requests are followed
\* through the rate limiter.
MaxTimeSteps == 2

\* ------------------------------------------------- constants of the source

\* recent_cutoff = current_time - 10
BurstWindowSeconds == 10

\* self.cleanup_interval = 300
CleanupIntervalSeconds == 300

\* ---------------------------------------------------------- configuration

\* Constructor arguments of RateLimitMiddleware.  The first two are the
\* settings of the repository's tests (window_size=1), the last has the
\* window of the assembled application (window_size defaults to 60); the
\* last two have a burst limit below the sustained limit.
RateLimitConfigs ==
  { [requests_per_minute |-> 1, burst_limit |-> 1, window_size |-> 1,
     whitelist |-> {"w"}],
    [requests_per_minute |-> 2, burst_limit |-> 2, window_size |-> 1,
     whitelist |-> {"w"}],
    [requests_per_minute |-> 3, burst_limit |-> 2, window_size |-> 1,
     whitelist |-> {"w"}],
    [requests_per_minute |-> 3, burst_limit |-> 2, window_size |-> 60,
     whitelist |-> {"w"}] }

\* The absent value of an optional header / of request.client.
None == "<none>"

\* Where a request comes from: the X-Forwarded-For header as the list of
\* its comma-separated entries (<< >> when the header is absent or empty),
\* the X-Real-IP header and the peer address.
Origins ==
  { [xff |-> <<"a", "proxy">>, real_ip |-> None, peer |-> "proxy"],
    [xff |-> << >>,            real_ip |-> "b",  peer |-> "proxy"],
    [xff |-> << >>,            real_ip |-> None, peer |-> "w"] }

VARIABLES
  cfg,           \* RateLimitMiddleware's constructor arguments
  settings,      \* the settings app.main passes to the other middleware
  now,           \* time.time(), in ticks
  requests,      \* RateLimitMiddleware.requests: client key -> timestamps
  last_cleanup,  \* RateLimitMiddleware.last_cleanup
  events,        \* what log_security_event has been called with, in order
  hist,          \* every decision of _check_rate_limit, in order
  rq,            \* per request in flight: the request
  pc,            \* per request: where in the middleware stack it is
  out,           \* per request: the response or exception travelling outward
  deadline,      \* per request: when its asyncio.wait_for expires (-1: unset)
  obs,           \* per request: what has happened to it so far
  ctx,           \* per request and stage: correlation_id_ctx in the stage's task
  uuids,         \* how many ids generate_correlation_id has produced
  loop           \* the event loop: the task running, each task's locals

limiterVars == <<requests, last_cleanup, hist>>

flightVars == <<rq, pc, out, deadline, obs>>

corrVars == <<ctx, uuids>>

\* ------------------------------------------------------------ pure helpers

Ticks(seconds) == seconds * TicksPerSecond

\* int(x) of a positive or negative number of seconds given in ticks:
\* truncation toward zero.
IntSeconds(ticks) ==
  IF ticks >= 0 THEN ticks \div TicksPerSecond
  ELSE -((-ticks) \div TicksPerSecond)

\* str.strip() on the header values that occur.
Strip(str) ==
  CASE str = " " -> ""
    [] str = " a" -> "a"
    [] OTHER -> str

\* _get_client_ip: the first entry of X-Forwarded-For, else X-Real-IP, else
\* the peer address, else "unknown".
GetClientIp(o) ==
  IF o.xff # << >> THEN Strip(o.xff[1])
  ELSE IF o.real_ip # None /\ o.real_ip # "" THEN Strip(o.real_ip)
  ELSE IF o.peer # None THEN o.peer
  ELSE "unknown"

\* [req_time for req_time in client_requests if req_time > cutoff_time]
PruneInclusive(seq, cutoff) == SelectSeq(seq, LAMBDA t : t >= cutoff)

\* A prune that drops nothing.
PruneNothing(seq, cutoff) == seq

Prune(seq, cutoff) == SelectSeq(seq, LAMBDA t : t > cutoff)

\* client_ip in self.whitelist
NeverWhitelisted(c, key) == FALSE

IsWhitelisted(c, key) == key \in c.whitelist

\* One list shared by all clients.
LookupShared(reqs, key) ==
  IF DOMAIN reqs = {} THEN <<>> ELSE reqs[CHOOSE k \in DOMAIN reqs : TRUE]

\* self.requests[client_ip] of the defaultdict(list)
Lookup(reqs, key) == IF key \in DOMAIN reqs THEN reqs[key] ELSE <<>>

Store(reqs, key, seq) ==
  [k \in DOMAIN reqs \cup {key} |-> IF k = key THEN seq ELSE reqs[k]]

\* len(client_requests) >= self.requests_per_minute
SustainedExceededEarly(c, seq) ==
  Len(seq) >= 1 /\ Len(seq) + 1 >= c.requests_per_minute

SustainedExceeded(c, seq) == Len(seq) >= c.requests_per_minute

\* A limiter without a burst limit.
BurstNeverExceeded(c, recent) == FALSE

\* len(recent_requests) >= self.burst_limit
BurstExceededStrict(c, recent) == Len(recent) > c.burst_limit

BurstExceeded(c, recent) == Len(recent) >= c.burst_limit

\* retry_after = int(self.window_size - (current_time - client_requests[0]))
RetryAfter(c, t, seq) == IntSeconds(Ticks(c.window_size) - (t - seq[1]))

\* A sweep that prunes the lists and keeps the clients whose list is empty.
CleanupKeepingEmpty(c, reqs, lc, t) ==
  IF t - lc < Ticks(CleanupIntervalSeconds)
  THEN [requests |-> reqs, last_cleanup |-> lc]
  ELSE [requests |-> [k \in DOMAIN reqs |->
                        Prune(reqs[k], t - Ticks(c.window_size))],
        last_cleanup |-> t]

\* A sweep that forgets every client.
CleanupEverything(c, reqs, lc, t) ==
  IF t - lc < Ticks(CleanupIntervalSeconds)
  THEN [requests |-> reqs, last_cleanup |-> lc]
  ELSE [requests |-> << >>, last_cleanup |-> t]

\* _cleanup_old_requests: the map and last_cleanup after the sweep of a
\* request arriving at time t.
CleanupOldRequests(c, reqs, lc, t) ==
  IF t - lc < Ticks(CleanupIntervalSeconds)
  THEN [requests |-> reqs, last_cleanup |-> lc]
  ELSE LET cutoff == t - Ticks(c.window_size)
           kept == {k \in DOMAIN reqs : Prune(reqs[k], cutoff) # <<>>}
       IN [requests |-> [k \in kept |-> Prune(reqs[k], cutoff)],
           last_cleanup |-> t]

\* A limiter that records the requests it rejects too.
CheckRecordingRejections(c, reqs, key, t) ==
  IF IsWhitelisted(c, key)
  THEN [requests |-> reqs, outcome |-> "admitted", retry_after |-> -1,
        event |-> None]
  ELSE
    LET client_requests == Prune(Lookup(reqs, key), t - Ticks(c.window_size))
        recent_requests == Prune(client_requests, t - Ticks(BurstWindowSeconds))
        recorded == Store(reqs, key, Append(client_requests, t))
    IN IF SustainedExceeded(c, client_requests)
       THEN [requests |-> recorded,
             outcome |-> "rate_limit",
             retry_after |-> RetryAfter(c, t, client_requests),
             event |-> "rate_limit_exceeded"]
       ELSE IF BurstExceeded(c, recent_requests)
       THEN [requests |-> recorded,
             outcome |-> "burst_limit",
             retry_after |-> BurstWindowSeconds,
             event |-> "burst_limit_exceeded"]
       ELSE [requests |-> recorded,
             outcome |-> "admitted", retry_after |-> -1, event |-> None]

\* A limiter that looks at the burst limit before the sustained one.
CheckBurstFirst(c, reqs, key, t) ==
  IF IsWhitelisted(c, key)
  THEN [requests |-> reqs, outcome |-> "admitted", retry_after |-> -1,
        event |-> None]
  ELSE
    LET client_requests == Prune(Lookup(reqs, key), t - Ticks(c.window_size))
        recent_requests == Prune(client_requests, t - Ticks(BurstWindowSeconds))
    IN IF BurstExceeded(c, recent_requests)
       THEN [requests |-> Store(reqs, key, client_requests),
             outcome |-> "burst_limit",
             retry_after |-> BurstWindowSeconds,
             event |-> "burst_limit_exceeded"]
       ELSE IF SustainedExceeded(c, client_requests)
       THEN [requests |-> Store(reqs, key, client_requests),
             outcome |-> "rate_limit",
             retry_after |-> RetryAfter(c, t, client_requests),
             event |-> "rate_limit_exceeded"]
       ELSE [requests |-> Store(reqs, key, Append(client_requests, t)),
             outcome |-> "admitted", retry_after |-> -1, event |-> None]

\* _check_rate_limit: the map, the decision and the security event of a
\* request of client key at time t.
CheckRateLimit(c, reqs, key, t) ==
  IF IsWhitelisted(c, key)
  THEN [requests |-> reqs, outcome |-> "admitted", retry_after |-> -1,
        event |-> None]
  ELSE
    LET client_requests == Prune(Lookup(reqs, key), t - Ticks(c.window_size))
        recent_requests == Prune(client_requests, t - Ticks(BurstWindowSeconds))
    IN IF SustainedExceeded(c, client_requests)
       THEN [requests |-> Store(reqs, key, client_requests),
             outcome |-> "rate_limit",
             retry_after |-> RetryAfter(c, t, client_requests),
             event |-> "rate_limit_exceeded"]
       ELSE IF BurstExceeded(c, recent_requests)
       THEN [requests |-> Store(reqs, key, client_requests),
             outcome |-> "burst_limit",
             retry_after |-> BurstWindowSeconds,
             event |-> "burst_limit_exceeded"]
       ELSE [requests |-> Store(reqs, key, Append(client_requests, t)),
             outcome |-> "admitted", retry_after |-> -1, event |-> None]

\* RateLimitMiddleware.dispatch up to call_next, for a request of origin o
\* at time t: sweep, resolve the client key, check.  The three calls contain
\* no suspension point, so they are one step.
RateLimitDecision(o, t) ==
  LET swept == CleanupOldRequests(cfg, requests, last_cleanup, t)
      key == GetClientIp(o)
      res == CheckRateLimit(cfg, swept.requests, key, t)
  IN [key |-> key, requests |-> res.requests,
      last_cleanup |-> swept.last_cleanup, outcome |-> res.outcome,
      retry_after |-> res.retry_after, event |-> res.event]

\* log_security_event(event_type=..., details=...)
\* CorrelationIdFilter.filter: what the log record of a task whose
\* correlation_id_ctx holds id is stamped with.
FilterCorrelationId(id) == IF id = "" THEN "no-correlation-id" ELSE id

Logged(rid, id, types) ==
  events \o [i \in 1..Len(types) |->
               [event_type |-> types[i], rid |-> rid,
                correlation_id |-> FilterCorrelationId(id)]]

RateLimitStep(rid, o, t) ==
  LET d == RateLimitDecision(o, t)
  IN /\ requests' = d.requests
     /\ last_cleanup' = d.last_cleanup
     /\ hist' = Append(hist, [rid |-> rid, key |-> d.key, time |-> t,
                              outcome |-> d.outcome,
                              retry_after |-> d.retry_after,
                              event |-> d.event,
                              swept |-> d.last_cleanup # last_cleanup])

\* ------------------------------------------- the assembled application

\* The requests the application is sent.
Reqs == 1..MaxRequests

\* The app.add_middleware calls of app.main, in the order they are made.
AddOrder ==
  <<"CORS", "SecurityHeaders", "PayloadSize", "ContentType", "Timeout",
    "RateLimit", "Logging", "SecurityLogging", "Performance">>

Reverse(seq) == [i \in 1..Len(seq) |-> seq[Len(seq) + 1 - i]]

\* The stack Starlette builds, outermost first: ServerErrorMiddleware (which
\* holds the handler registered for Exception), the added middleware with
\* the one added last outermost, ExceptionMiddleware (which holds the
\* handlers registered for the typed errors), the router.
Stack == <<"ServerError">> \o Reverse(AddOrder) \o <<"Exception", "Router">>

StageIndex(name) == CHOOSE i \in 1..Len(Stack) : Stack[i] = name

\* settings.rate_limit_per_minute and settings.rate_limit_burst as app.main
\* passes them; window_size and whitelist keep their defaults.
AppRateLimitConfigs ==
  { [requests_per_minute |-> 1, burst_limit |-> 1, window_size |-> 60,
     whitelist |-> {}],
    [requests_per_minute |-> 2, burst_limit |-> 2, window_size |-> 60,
     whitelist |-> {}] }

AppSettings ==
  { [request_timeout_seconds |-> 30, max_payload_size_mb |-> 10,
     enable_hsts |-> FALSE] }

\* self.max_size_bytes = max_size_mb * 1024 * 1024
MaxSizeBytes(st) == st.max_payload_size_mb * 1024 * 1024

BigBody == MaxSizeBytes([max_payload_size_mb |-> 10]) + 1

NoLength == [present |-> FALSE, parses |-> FALSE, value |-> 0]

Length(n) == [present |-> TRUE, parses |-> TRUE, value |-> n]

\* A Content-Length header int() raises ValueError on.
BadLength == [present |-> TRUE, parses |-> FALSE, value |-> 0]

NoContentType == [mime |-> "", params |-> ""]

Client == [xff |-> <<"a", "proxy">>, real_ip |-> None, peer |-> "proxy"]

\* The requests the application is sent.  content_type is the header split
\* at its first ";"; body_ok is whether request.body() returns (it raises
\* when the client disconnects while sending).
BaseKinds ==
  { \* GET without a body
    [origin |-> Client, method |-> "GET", path |-> "/api/v1/samples",
     content_length |-> NoLength, content_type |-> NoContentType,
     body_len |-> 0, body_ok |-> TRUE],
    \* GET announcing an oversized body
    [origin |-> Client, method |-> "GET", path |-> "/api/v1/samples",
     content_length |-> Length(BigBody), content_type |-> NoContentType,
     body_len |-> 0, body_ok |-> TRUE],
    \* POST of JSON, mixed case and a charset parameter
    [origin |-> Client, method |-> "POST", path |-> "/api/v1/samples",
     content_length |-> Length(5),
     content_type |-> [mime |-> "Application/JSON", params |-> "charset=utf-8"],
     body_len |-> 5, body_ok |-> TRUE],
    \* POST of text/plain with a body
    [origin |-> Client, method |-> "POST", path |-> "/api/v1/samples",
     content_length |-> Length(5),
     content_type |-> [mime |-> "text/plain", params |-> ""],
     body_len |-> 5, body_ok |-> TRUE],
    \* the same POST with an empty body
    [origin |-> Client, method |-> "POST", path |-> "/api/v1/samples",
     content_length |-> Length(0),
     content_type |-> [mime |-> "text/plain", params |-> ""],
     body_len |-> 0, body_ok |-> TRUE],
    \* the same POST, the client disconnecting while it sends the body
    [origin |-> Client, method |-> "POST", path |-> "/api/v1/samples",
     content_length |-> Length(5),
     content_type |-> [mime |-> "text/plain", params |-> ""],
     body_len |-> 5, body_ok |-> FALSE],
    \* POST of text/plain to an exempt path
    [origin |-> Client, method |-> "POST", path |-> "/",
     content_length |-> Length(5),
     content_type |-> [mime |-> "text/plain", params |-> ""],
     body_len |-> 5, body_ok |-> TRUE],
    \* PUT of JSON announcing an oversized body
    [origin |-> Client, method |-> "PUT", path |-> "/api/v1/samples",
     content_length |-> Length(BigBody),
     content_type |-> [mime |-> "application/json", params |-> ""],
     body_len |-> BigBody, body_ok |-> TRUE],
    \* chunked PATCH of an oversized JSON body, Content-Length unparseable
    [origin |-> Client, method |-> "PATCH", path |-> "/api/v1/samples",
     content_length |-> BadLength,
     content_type |-> [mime |-> "application/json", params |-> ""],
     body_len |-> BigBody, body_ok |-> TRUE] }

\* What SecurityLoggingMiddleware looks at: which of its patterns occur in
\* str(request.url).lower(), the bytes of the headers, which of its scanner
\* names occur in the lower-cased User-Agent.
Benign == [url_patterns |-> {}, header_bytes |-> 512, agents |-> {}]

Probing ==
  [url_patterns |-> {"select", "union"}, header_bytes |-> 9000,
   agents |-> {"sqlmap"}]

\* The X-Correlation-ID header of a request that sends none.
Anonymous == [correlation_header |-> None]

RequestKinds ==
  {k @@ Benign @@ Anonymous : k \in BaseKinds}
    \cup {k @@ Probing @@ Anonymous :
            k \in {b \in BaseKinds :
                     b.method = "GET" /\ ~b.content_length.present}}

NoRequest ==
  [origin |-> Client, method |-> "", path |-> "", content_length |-> NoLength,
   content_type |-> NoContentType, body_len |-> 0, body_ok |-> TRUE]
    @@ Benign @@ Anonymous

\* str.lower() on the media types that occur.
Lower(str) ==
  CASE str = "Application/JSON" -> "application/json"
    [] OTHER -> str

\* content_type.split(";")[0].strip() of the lower-cased header
BaseContentTypeAsSent(q) == q.content_type.mime

BaseContentType(q) == Lower(q.content_type.mime)

\* self.allowed_content_types
AllowedContentTypes ==
  [m \in {"POST", "PUT", "PATCH"} |->
     {"application/json", "application/x-www-form-urlencoded",
      "multipart/form-data"}]

\* _should_skip_validation
SkipPaths == {"/health", "/", "/docs", "/redoc", "/openapi.json"}

\* ContentTypeValidationMiddleware.dispatch reads the body of q.
ContentTypeReadsBody(q) ==
  q.path \notin SkipPaths /\ q.method \in DOMAIN AllowedContentTypes

\* has_body: bool(body), False when request.body() raises
HasBody(q) == q.body_ok /\ q.body_len > 0

\* ContentTypeValidationMiddleware.dispatch raises ValidationError for q.
ContentTypeRejects(q) ==
  /\ ContentTypeReadsBody(q)
  /\ HasBody(q)
  /\ BaseContentType(q) \notin AllowedContentTypes[q.method]

\* The Content-Length check of PayloadSizeValidationMiddleware.dispatch.
DeclaredTooLargeBodyMethodsOnly(st, q) ==
  /\ q.method \in {"POST", "PUT", "PATCH"}
  /\ q.content_length.present
  /\ q.content_length.parses
  /\ q.content_length.value > MaxSizeBytes(st)

DeclaredTooLarge(st, q) ==
  /\ q.content_length.present
  /\ q.content_length.parses
  /\ q.content_length.value > MaxSizeBytes(st)

\* A size check that measures the body only when no length is declared.
ReadsBodyWithoutLengthOnly(st, q) ==
  ~q.content_length.present /\ q.method \in {"POST", "PUT", "PATCH"}

\* PayloadSizeValidationMiddleware.dispatch reads the body of q.
PayloadReadsBody(st, q) ==
  ~DeclaredTooLarge(st, q) /\ q.method \in {"POST", "PUT", "PATCH"}

\* The check of the body read.
ActualTooLarge(st, q) ==
  PayloadReadsBody(st, q) /\ q.body_ok /\ q.body_len > MaxSizeBytes(st)

\* The fixed headers _add_security_headers sets.
SecurityHeaders ==
  {"X-Content-Type-Options", "X-Frame-Options", "X-XSS-Protection",
   "Referrer-Policy", "Content-Security-Policy", "Permissions-Policy"}

AddSecurityHeaders(st, r) ==
  [r EXCEPT !.headers =
     @ \cup SecurityHeaders
       \cup (IF st.enable_hsts THEN {"Strict-Transport-Security"} ELSE {})]

\* What travels outward: nothing yet, a response, or an exception.
Nothing ==
  [kind |-> "none", status |-> 0, error_code |-> "", headers |-> {},
   by |-> "", retry_after |-> -1, timeout_seconds |-> -1,
   correlation_id |-> None]

\* Response(...) / JSONResponse(...)
Response(status, code, by) ==
  [kind |-> "response", status |-> status, error_code |-> code,
   headers |-> {"content-type"}, by |-> by, retry_after |-> -1,
   timeout_seconds |-> -1, correlation_id |-> None]

\* BaseAPIException and its subclasses; by is the class.
Exc(by, status, code) ==
  [kind |-> "exception", status |-> status, error_code |-> code,
   headers |-> {}, by |-> by, retry_after |-> -1, timeout_seconds |-> -1,
   correlation_id |-> None]

\* RateLimitError(retry_after=...): details carry retry_after only when it
\* is truthy.
RateLimitError(retry_after) ==
  [Exc("RateLimitError", 429, "RATE_LIMIT_ERROR")
     EXCEPT !.retry_after = IF retry_after # 0 THEN retry_after ELSE -1]

ValidationError == Exc("ValidationError", 400, "VALIDATION_ERROR")

\* What request.body() raises when the client has gone.
ClientDisconnect == Exc("ClientDisconnect", 0, "")

\* The response RequestTimeoutMiddleware synthesizes.
SlowTimeoutResponse(st) ==
  [Response(504, "GATEWAY_TIMEOUT", "RequestTimeoutMiddleware")
     EXCEPT !.timeout_seconds = st.request_timeout_seconds]

TimeoutResponse(st) ==
  [Response(408, "REQUEST_TIMEOUT", "RequestTimeoutMiddleware")
     EXCEPT !.timeout_seconds = st.request_timeout_seconds]

\* global_exception_handler, the handler ServerErrorMiddleware holds.
GlobalExceptionHandler(e) ==
  Response(500, "INTERNAL_ERROR", "global_exception_handler")

\* The handlers ExceptionMiddleware holds: the typed error as JSON.
\* rate_limit_error_handler adds Retry-After when the details carry
\* retry_after.
TypedErrorHandler(e) ==
  [Response(e.status, e.error_code, "exception_handler")
     EXCEPT !.retry_after = e.retry_after,
            !.headers = IF e.by = "RateLimitError" /\ e.retry_after # -1
                        THEN @ \cup {"Retry-After"} ELSE @]

\* What the request handler may do: return its response, or raise one of
\* the typed errors.
HandlerResults ==
  { Response(200, "", "handler"),
    Exc("AuthenticationError", 401, "AUTHENTICATION_ERROR") }

\* What has happened to a request: the stages whose dispatch has started,
\* the stages that have read its body, how often its handler was called,
\* which guards admitted it and which rejected it, and what reached and
\* what left RequestTimeoutMiddleware.
NoObs ==
  [entered |-> << >>, body_reads |-> << >>, handler_calls |-> 0,
   admitted_by |-> {}, rejected_by |-> "", guard_in |-> Nothing,
   guard_out |-> Nothing, timed_out |-> FALSE, started_at |-> -1,
   finished_at |-> -1, correlation_id |-> None, handler_saw |-> None,
   detector_in |-> Nothing, detector_out |-> Nothing, handler |-> "none"]

\* ----------------------------------------- the rate limiter on its own

\* How long after the previous request the next one arrives (ticks).
Delays(c) ==
  {0, 1, Ticks(BurstWindowSeconds), Ticks(c.window_size),
   Ticks(CleanupIntervalSeconds)}

\* RateLimitMiddleware.__init__: an empty map, last_cleanup = time.time().
LimiterInit ==
  /\ now = 0
  /\ requests = << >>
  /\ last_cleanup = 0
  /\ events = << >>
  /\ hist = << >>

\* The locals of RateLimitMiddleware.dispatch and _check_rate_limit.
NoLocal ==
  [key |-> "", time |-> -1, outcome |-> "", retry_after |-> -1,
   event |-> None, swept |-> FALSE]

\* No request is in flight.
FlightInit ==
  /\ rq = [r \in Reqs |-> NoRequest]
  /\ pc = [r \in Reqs |-> [phase |-> "idle", at |-> 0]]
  /\ out = [r \in Reqs |-> Nothing]
  /\ deadline = [r \in Reqs |-> -1]
  /\ obs = [r \in Reqs |-> NoObs]
  /\ ctx = [r \in Reqs |-> [k \in 1..Len(Stack) |-> ""]]
  /\ uuids = 0
  /\ loop = [running |-> 0, ticks |-> 0, local |-> [r \in Reqs |-> NoLocal]]

Init ==
  /\ cfg \in RateLimitConfigs
  /\ settings \in AppSettings
  /\ LimiterInit
  /\ FlightInit

\* A request of origin o reaches RateLimitMiddleware.dispatch d ticks after
\* the previous one; what call_next does with it is left open.
Arrive(o, d) ==
  /\ Len(hist) < MaxArrivals
  /\ now' = now + d
  /\ RateLimitStep(Len(hist) + 1, o, now + d)
  /\ events' = LET e == RateLimitDecision(o, now + d).event
               IN IF e = None THEN events ELSE Logged(Len(hist) + 1, "", <<e>>)
  /\ UNCHANGED <<cfg, settings, loop, corrVars, flightVars>>

Next == \E o \in Origins, d \in Delays(cfg) : Arrive(o, d)

vars ==
  <<cfg, settings, now, requests, last_cleanup, events, hist,
    rq, pc, out, deadline, obs, ctx, uuids, loop>>

Spec == Init /\ [][Next]_vars

\* ------------------------------------- the assembled application's steps

\* asyncio.wait_for has not expired for r: r is outside the timeout guard
\* or its deadline lies ahead.  Once the deadline is reached nothing that
\* the inner stages do reaches the response any more.
Live(r) == deadline[r] = -1 \/ now < deadline[r]

\* The event loop runs one coroutine at a time and switches where one waits:
\* the steps of a request through the stages run without another request's
\* steps between them, and requests overlap while they wait in the handler.
Scheduled(r) ==
  \A p \in Reqs \ {r} : pc[p].phase \in {"idle", "running", "done"}

Entering(r, name) ==
  pc[r].phase = "enter" /\ Stack[pc[r].at] = name /\ Live(r) /\ Scheduled(r)

Returning(r, name) ==
  pc[r].phase = "return" /\ Stack[pc[r].at] = name /\ Live(r) /\ Scheduled(r)

Raising(r, name) ==
  pc[r].phase = "raise" /\ Stack[pc[r].at] = name /\ Live(r) /\ Scheduled(r)

\* correlation_id_ctx.get() in the task the stage name of request r runs in.
Ambient(r, name) == ctx[r][StageIndex(name)]

\* A module-level variable in place of the ContextVar: the id bound last.
BoundShared(c, r, id) == [p \in Reqs |-> [k \in DOMAIN c[p] |-> id]]

\* correlation_id_ctx.set(id) in the task the current stage of r runs in.
Bound(c, r, id) == [c EXCEPT ![r][pc[r].at] = id]

\* call_next runs the next stage in a new task, which starts with a copy of
\* the context of the task that creates it; what that task sets later does
\* not reach the creating task.
Spawned(c, r) == [c EXCEPT ![r][pc[r].at + 1] = c[r][pc[r].at]]

\* The ids uuid.uuid4() returns, in the order it returns them.
Uuid4(n) == <<"uuid4-1", "uuid4-2", "uuid4-3", "uuid4-4">>[n]

\* request.headers.get("X-Correlation-ID") or generate_correlation_id()
\* calls generate_correlation_id.
Generates(header) == header \in {None, ""}

\* Every request gets a generated id.
CorrelationIdAlwaysFresh(header, n) == Uuid4(n)

\* request.headers.get("X-Correlation-ID") or generate_correlation_id(),
\* the generated id being the n-th one.
CorrelationIdFor(header, n) ==
  IF Generates(header) THEN Uuid4(n) ELSE header

\* await call_next(request): on to the next stage inward.
CallNext(r) ==
  /\ pc' = [pc EXCEPT ![r] = [phase |-> "enter", at |-> @.at + 1]]
  /\ ctx' = Spawned(ctx, r)

\* return response: the response goes to the stage around this one.
ReturnOutward(r) ==
  pc' = [pc EXCEPT ![r] = [phase |-> "return", at |-> @.at - 1]]

\* raise: the exception goes to the stage around this one.
RaiseOutward(r) ==
  pc' = [pc EXCEPT ![r] = [phase |-> "raise", at |-> @.at - 1]]

\* A guard that only logs what it finds and calls the next stage.
RejectLogsOnly(r) ==
  /\ pc' = [pc EXCEPT ![r] = [phase |-> "enter", at |-> @.at + 1]]
  /\ ctx' = Spawned(ctx, r)

\* raise RateLimitError(...) / raise ValidationError(...) in a guard's
\* dispatch: the guard's call_next is not reached.
Reject(r) ==
  /\ pc' = [pc EXCEPT ![r] = [phase |-> "raise", at |-> @.at - 1]]
  /\ ctx' = ctx

\* The response leaves the application.
Deliver(r) == pc' = [pc EXCEPT ![r] = [phase |-> "done", at |-> 0]]

Entered(r, name) == [obs[r] EXCEPT !.entered = Append(@, name)]

\* The server hands the application a request.
Receive(r, q) ==
  /\ pc[r].phase = "idle"
  /\ \A p \in Reqs : p < r => pc[p].phase # "idle"
  /\ Scheduled(r)
  /\ rq' = [rq EXCEPT ![r] = q]
  /\ pc' = [pc EXCEPT ![r] = [phase |-> "enter", at |-> 1]]
  /\ UNCHANGED <<cfg, settings, loop, corrVars, now, limiterVars, events, out, deadline, obs>>

\* The stages that only call the next one: ServerErrorMiddleware,
\* PerformanceLoggingMiddleware (which notes the time), SecurityHeaders-
\* Middleware, CORSMiddleware, ExceptionMiddleware.
PassDown(r) ==
  /\ \E name \in {"ServerError", "Performance", "SecurityHeaders", "CORS",
                  "Exception"} :
       /\ Entering(r, name)
       /\ obs' = [obs EXCEPT ![r] = Entered(r, name)]
  /\ CallNext(r)
  /\ UNCHANGED <<cfg, settings, loop, uuids, now, limiterVars, events, rq, out, deadline>>

\* _check_suspicious_patterns: one event for the URL, one for the header
\* size, one for the User-Agent.
SuspiciousEvents(q) ==
  (IF q.url_patterns # {} THEN <<"suspicious_request">> ELSE << >>)
    \o (IF q.header_bytes > 8192 THEN <<"large_headers">> ELSE << >>)
    \o (IF q.agents # {} THEN <<"suspicious_user_agent">> ELSE << >>)

\* request.url.path.startswith("/api/v1/auth/")
IsAuthPath(path) == path \in {"/api/v1/auth/login", "/api/v1/auth/register"}

\* A detector that turns away the requests it finds suspicious.
BlockSuspicious(r) ==
  /\ pc' = [pc EXCEPT ![r] =
              IF SuspiciousEvents(rq[r]) = << >>
              THEN [phase |-> "enter", at |-> @.at + 1]
              ELSE [phase |-> "raise", at |-> @.at - 1]]
  /\ ctx' = Spawned(ctx, r)

\* SecurityLoggingMiddleware.dispatch after _check_suspicious_patterns:
\* response = await call_next(request), whatever was found.
AfterSuspiciousCheck(r) == CallNext(r)

\* SecurityLoggingMiddleware.dispatch up to call_next.
SecurityLogging_Enter(r) ==
  /\ Entering(r, "SecurityLogging")
  /\ events' = Logged(r, Ambient(r, "SecurityLogging"),
                      SuspiciousEvents(rq[r]))
  /\ obs' = [obs EXCEPT ![r] = Entered(r, "SecurityLogging")]
  /\ AfterSuspiciousCheck(r)
  /\ UNCHANGED <<cfg, settings, loop, uuids, now, limiterVars, rq, out, deadline>>

\* LoggingMiddleware.dispatch up to call_next: _log_request reads the body
\* of every request that is not a GET.
Logging_Enter(r) ==
  /\ Entering(r, "Logging")
  /\ LET id == CorrelationIdFor(rq[r].correlation_header, uuids + 1)
     IN /\ uuids' = IF Generates(rq[r].correlation_header)
                    THEN uuids + 1 ELSE uuids
        /\ ctx' = Spawned(Bound(ctx, r, id), r)
        /\ events' = Logged(r, Bound(ctx, r, id)[r][pc[r].at],
                            IF IsAuthPath(rq[r].path) THEN <<"auth_attempt">>
                            ELSE << >>)
        /\ obs' = [obs EXCEPT ![r] =
                     [Entered(r, "Logging") EXCEPT
                        !.correlation_id = id,
                        !.body_reads = IF rq[r].method = "GET" THEN @
                                       ELSE Append(@, "Logging")]]
  /\ pc' = [pc EXCEPT ![r] = [phase |-> "enter", at |-> @.at + 1]]
  /\ UNCHANGED <<cfg, settings, loop, now, limiterVars, rq, out, deadline>>

\* RateLimitMiddleware.dispatch up to call_next; the RateLimitError leaves
\* dispatch.
RateLimit_Enter(r) ==
  /\ Entering(r, "RateLimit")
  /\ Len(hist) < MaxArrivals
  /\ RateLimitStep(r, rq[r].origin, now)
  /\ LET d == RateLimitDecision(rq[r].origin, now)
     IN IF d.outcome = "admitted"
        THEN /\ events' = events
             /\ obs' = [obs EXCEPT ![r] =
                          [Entered(r, "RateLimit") EXCEPT
                             !.admitted_by = @ \cup {"RateLimit"}]]
             /\ out' = out
             /\ CallNext(r)
        ELSE /\ events' = Logged(r, Ambient(r, "RateLimit"), <<d.event>>)
             /\ obs' = [obs EXCEPT ![r] =
                          [Entered(r, "RateLimit") EXCEPT
                             !.rejected_by = "RateLimit"]]
             /\ out' = [out EXCEPT ![r] = RateLimitError(d.retry_after)]
             /\ Reject(r)
  /\ UNCHANGED <<cfg, settings, loop, uuids, now, rq, deadline>>

\* A stage that calls the next one without a deadline.
Timeout_EnterNoDeadline(r) ==
  /\ Entering(r, "Timeout")
  /\ deadline' = deadline
  /\ obs' = [obs EXCEPT ![r] =
               [Entered(r, "Timeout") EXCEPT !.started_at = now]]
  /\ CallNext(r)
  /\ UNCHANGED <<cfg, settings, loop, uuids, now, limiterVars, events, rq, out>>

\* RequestTimeoutMiddleware.dispatch: asyncio.wait_for(call_next(request),
\* timeout=self.timeout_seconds) starts.
Timeout_Enter(r) ==
  /\ Entering(r, "Timeout")
  /\ deadline' = [deadline EXCEPT ![r] =
                    now + Ticks(settings.request_timeout_seconds)]
  /\ obs' = [obs EXCEPT ![r] =
               [Entered(r, "Timeout") EXCEPT !.started_at = now]]
  /\ CallNext(r)
  /\ UNCHANGED <<cfg, settings, loop, uuids, now, limiterVars, events, rq, out>>

\* ContentTypeValidationMiddleware.dispatch up to call_next.
ContentType_Enter(r) ==
  /\ Entering(r, "ContentType")
  /\ LET q == rq[r]
         seen == [Entered(r, "ContentType") EXCEPT
                    !.body_reads = IF ContentTypeReadsBody(q)
                                   THEN Append(@, "ContentType") ELSE @]
     IN IF ContentTypeRejects(q)
        THEN /\ events' = Logged(r, Ambient(r, "ContentType"), <<"invalid_content_type">>)
             /\ obs' = [obs EXCEPT ![r] =
                          [seen EXCEPT !.rejected_by = "ContentType"]]
             /\ out' = [out EXCEPT ![r] = ValidationError]
             /\ Reject(r)
        ELSE /\ events' = events
             /\ obs' = [obs EXCEPT ![r] =
                          [seen EXCEPT !.admitted_by = @ \cup {"ContentType"}]]
             /\ out' = out
             /\ CallNext(r)
  /\ UNCHANGED <<cfg, settings, loop, uuids, now, limiterVars, rq, deadline>>

\* PayloadSizeValidationMiddleware.dispatch up to call_next.
PayloadSize_Enter(r) ==
  /\ Entering(r, "PayloadSize")
  /\ LET q == rq[r]
         seen == [Entered(r, "PayloadSize") EXCEPT
                    !.body_reads = IF PayloadReadsBody(settings, q)
                                   THEN Append(@, "PayloadSize") ELSE @]
     IN IF DeclaredTooLarge(settings, q) \/ ActualTooLarge(settings, q)
        THEN /\ events' = Logged(r, Ambient(r, "PayloadSize"), <<"oversized_request">>)
             /\ obs' = [obs EXCEPT ![r] =
                          [seen EXCEPT !.rejected_by = "PayloadSize"]]
             /\ out' = [out EXCEPT ![r] = ValidationError]
             /\ Reject(r)
        ELSE IF PayloadReadsBody(settings, q) /\ ~q.body_ok
        THEN /\ events' = events
             /\ obs' = [obs EXCEPT ![r] = seen]
             /\ out' = [out EXCEPT ![r] = ClientDisconnect]
             /\ RaiseOutward(r)
             /\ ctx' = ctx
        ELSE /\ events' = events
             /\ obs' = [obs EXCEPT ![r] =
                          [seen EXCEPT !.admitted_by = @ \cup {"PayloadSize"}]]
             /\ out' = out
             /\ CallNext(r)
  /\ UNCHANGED <<cfg, settings, loop, uuids, now, limiterVars, rq, deadline>>

\* The router calls the request handler.
Router_Enter(r) ==
  /\ Entering(r, "Router")
  /\ obs' = [obs EXCEPT ![r] =
               [Entered(r, "Router") EXCEPT !.handler_calls = @ + 1,
                                            !.handler = "running"]]
  /\ pc' = [pc EXCEPT ![r] = [phase |-> "running", at |-> @.at]]
  /\ UNCHANGED <<cfg, settings, loop, corrVars, now, limiterVars, events, rq, out, deadline>>

\* The request handler finishes: with its response, or raising.  What its
\* log records were stamped with (get_correlation_id() in the handler's task)
\* is noted.
Handler_Finish(r, res) ==
  /\ pc[r].phase = "running"
  /\ Live(r)
  /\ Scheduled(r)
  /\ out' = [out EXCEPT ![r] = res]
  /\ obs' = [obs EXCEPT ![r].handler_saw = Ambient(r, "Router"),
                        ![r].handler = "finished"]
  /\ IF res.kind = "response" THEN ReturnOutward(r) ELSE RaiseOutward(r)
  /\ UNCHANGED <<cfg, settings, loop, corrVars, now, limiterVars, events, rq,
                 deadline>>

\* ExceptionMiddleware: the handler registered for the typed error makes
\* the response.
Exception_Catch(r) ==
  /\ Raising(r, "Exception")
  /\ out' = [out EXCEPT ![r] = TypedErrorHandler(@)]
  /\ ReturnOutward(r)
  /\ UNCHANGED <<cfg, settings, loop, corrVars, now, limiterVars, events, rq, deadline, obs>>

\* The stages that return the response of call_next as it is.
PassUp(r) ==
  /\ \E name \in {"Exception", "CORS", "PayloadSize", "ContentType",
                  "RateLimit", "Performance"} : Returning(r, name)
  /\ ReturnOutward(r)
  /\ UNCHANGED <<cfg, settings, loop, corrVars, now, limiterVars, events, rq, out, deadline,
                 obs>>

\* The stages an exception of call_next passes through.
Propagate(r) ==
  /\ \E name \in {"CORS", "SecurityHeaders", "PayloadSize", "ContentType",
                  "RateLimit", "SecurityLogging", "Performance"} :
       Raising(r, name)
  /\ RaiseOutward(r)
  /\ UNCHANGED <<cfg, settings, loop, corrVars, now, limiterVars, events, rq, out, deadline,
                 obs>>

\* SecurityHeadersMiddleware.dispatch after call_next.
SecurityHeaders_Leave(r) ==
  /\ Returning(r, "SecurityHeaders")
  /\ out' = [out EXCEPT ![r] = AddSecurityHeaders(settings, @)]
  /\ ReturnOutward(r)
  /\ UNCHANGED <<cfg, settings, loop, corrVars, now, limiterVars, events, rq, deadline, obs>>

\* asyncio.wait_for returns the response of call_next before the deadline.
Timeout_Leave(r) ==
  /\ Returning(r, "Timeout")
  /\ obs' = [obs EXCEPT ![r] =
               [@ EXCEPT !.guard_in = out[r], !.guard_out = out[r],
                         !.finished_at = now]]
  /\ deadline' = [deadline EXCEPT ![r] = -1]
  /\ ReturnOutward(r)
  /\ UNCHANGED <<cfg, settings, loop, corrVars, now, limiterVars, events, rq, out>>

\* asyncio.wait_for re-raises what call_next raised before the deadline;
\* RequestTimeoutMiddleware catches asyncio.TimeoutError only.
Timeout_Raise(r) ==
  /\ Raising(r, "Timeout")
  /\ obs' = [obs EXCEPT ![r] =
               [@ EXCEPT !.guard_in = out[r], !.guard_out = out[r],
                         !.finished_at = now]]
  /\ deadline' = [deadline EXCEPT ![r] = -1]
  /\ RaiseOutward(r)
  /\ UNCHANGED <<cfg, settings, loop, corrVars, now, limiterVars, events, rq, out>>

\* The deadline of asyncio.wait_for is reached: call_next is cancelled, the
\* event is logged and the 408 response is returned.
Timeout_Expire(r) ==
  /\ deadline[r] # -1
  /\ now >= deadline[r]
  /\ Scheduled(r)
  /\ events' = Logged(r, Ambient(r, "Timeout"), <<"request_timeout">>)
  /\ out' = [out EXCEPT ![r] = TimeoutResponse(settings)]
  /\ obs' = [obs EXCEPT ![r] =
               [@ EXCEPT !.guard_out = TimeoutResponse(settings),
                         !.timed_out = TRUE, !.finished_at = now]]
  /\ deadline' = [deadline EXCEPT ![r] = -1]
  /\ pc' = [pc EXCEPT ![r] =
              [phase |-> "return", at |-> StageIndex("Timeout") - 1]]
  /\ UNCHANGED <<cfg, settings, loop, corrVars, now, limiterVars, rq>>

\* No request is on its way through the stages.
Quiet == \A p \in Reqs : pc[p].phase \in {"idle", "running", "done"}

\* The handler of a request that has timed out.  asyncio.wait_for cancels
\* what it awaits, call_next(request); the inner application, the handler
\* included, runs in another task, which BaseHTTPMiddleware started in its
\* task group, and that task is not the one cancelled.  It goes on and
\* finishes after the 408 response has left, its own response dropped.
Handler_Overrun(r) ==
  /\ obs[r].handler = "running"
  /\ obs[r].timed_out
  /\ Quiet
  /\ obs' = [obs EXCEPT ![r].handler = "overrun"]
  /\ UNCHANGED <<cfg, settings, loop, corrVars, now, limiterVars, events, rq,
                 pc, out, deadline>>

\* Or, where BaseHTTPMiddleware cancels its task group once the response of
\* dispatch has been sent, the handler is cancelled then.
Handler_Cancel(r) ==
  /\ obs[r].handler = "running"
  /\ obs[r].timed_out
  /\ Quiet
  /\ obs' = [obs EXCEPT ![r].handler = "cancelled"]
  /\ UNCHANGED <<cfg, settings, loop, corrVars, now, limiterVars, events, rq,
                 pc, out, deadline>>

\* LoggingMiddleware.dispatch after call_next: the correlation header.
Logging_Leave(r) ==
  /\ Returning(r, "Logging")
  /\ out' = [out EXCEPT ![r].headers = @ \cup {"X-Correlation-ID"},
                         ![r].correlation_id = obs[r].correlation_id]
  /\ events' = Logged(r, Ambient(r, "Logging"),
                      IF IsAuthPath(rq[r].path) THEN <<"auth_response">>
                      ELSE << >>)
  /\ ReturnOutward(r)
  /\ UNCHANGED <<cfg, settings, loop, corrVars, now, limiterVars, rq, deadline, obs>>

\* LoggingMiddleware.dispatch: except Exception, _log_error, raise.
Logging_Raise(r) ==
  /\ Raising(r, "Logging")
  /\ events' = Logged(r, Ambient(r, "Logging"), <<"request_failed">>)
  /\ RaiseOutward(r)
  /\ UNCHANGED <<cfg, settings, loop, corrVars, now, limiterVars, rq, out, deadline, obs>>

\* SecurityLoggingMiddleware.dispatch after call_next.
SecurityLogging_Leave(r) ==
  /\ Returning(r, "SecurityLogging")
  /\ events' = Logged(r, Ambient(r, "SecurityLogging"),
                      IF /\ IsAuthPath(rq[r].path)
                         /\ out[r].status \in {401, 403}
                      THEN <<"auth_failed">> ELSE << >>)
  /\ obs' = [obs EXCEPT ![r].detector_in = out[r],
                        ![r].detector_out = out[r]]
  /\ ReturnOutward(r)
  /\ UNCHANGED <<cfg, settings, loop, corrVars, now, limiterVars, rq, out, deadline>>

\* ServerErrorMiddleware passes the response to the server.
ServerError_Leave(r) ==
  /\ Returning(r, "ServerError")
  /\ Deliver(r)
  /\ UNCHANGED <<cfg, settings, loop, corrVars, now, limiterVars, events, rq, out, deadline,
                 obs>>

\* ServerErrorMiddleware: the handler registered for Exception makes the
\* response of an exception that reached it.
ServerError_Catch(r) ==
  /\ Raising(r, "ServerError")
  /\ out' = [out EXCEPT ![r] = GlobalExceptionHandler(@)]
  /\ Deliver(r)
  /\ UNCHANGED <<cfg, settings, loop, corrVars, now, limiterVars, events, rq, deadline, obs>>

\* The deadline of asyncio.wait_for that is reached first.
NextDeadline ==
  CHOOSE t \in {deadline[r] : r \in {p \in Reqs : deadline[p] # -1}} :
    \A p \in Reqs : deadline[p] = -1 \/ t <= deadline[p]

\* Time passes while the handlers work: to just under the next deadline, or
\* to it; a deadline that is reached expires before time goes on.
TimePasses ==
  /\ \E r \in Reqs : deadline[r] # -1
  /\ \A r \in Reqs : deadline[r] = -1 \/ deadline[r] > now
  /\ \A r \in Reqs : pc[r].phase \in {"idle", "running", "done"}
  /\ \E t \in {NextDeadline - 1, NextDeadline} : t > now /\ now' = t
  /\ UNCHANGED <<cfg, settings, loop, corrVars, limiterVars, events, flightVars>>

AppInit ==
  /\ cfg \in AppRateLimitConfigs
  /\ settings \in AppSettings
  /\ LimiterInit
  /\ FlightInit

\* A step of request r through the stack.
StageStep(r) ==
       \/ PassDown(r)
       \/ SecurityLogging_Enter(r)
       \/ Logging_Enter(r)
       \/ RateLimit_Enter(r)
       \/ Timeout_Enter(r)
       \/ ContentType_Enter(r)
       \/ PayloadSize_Enter(r)
       \/ Router_Enter(r)
       \/ \E res \in HandlerResults : Handler_Finish(r, res)
       \/ Exception_Catch(r)
       \/ PassUp(r)
       \/ Propagate(r)
       \/ SecurityHeaders_Leave(r)
       \/ Timeout_Leave(r)
       \/ Timeout_Raise(r)
       \/ Timeout_Expire(r)
       \/ Logging_Leave(r)
       \/ Logging_Raise(r)
       \/ SecurityLogging_Leave(r)
       \/ ServerError_Leave(r)
       \/ ServerError_Catch(r)

AppNext ==
  \/ TimePasses
  \/ \E r \in Reqs :
       \/ \E q \in RequestKinds : Receive(r, q)
       \/ StageStep(r)

\* The application of app.main serving the requests of Reqs.
AppSpec == AppInit /\ [][AppNext]_vars

\* Requests that differ in their X-Correlation-ID header: absent, empty,
\* supplied; a login, and a POST the content-type check rejects.
CorrelationKinds ==
  { [origin |-> Client, method |-> "GET", path |-> "/api/v1/samples",
     content_length |-> NoLength, content_type |-> NoContentType,
     body_len |-> 0, body_ok |-> TRUE] @@ Benign
      @@ [correlation_header |-> h] : h \in {None, "", "abc-123"} }
  \cup
  { [origin |-> Client, method |-> "POST", path |-> "/api/v1/auth/login",
     content_length |-> Length(5),
     content_type |-> [mime |-> "application/json", params |-> ""],
     body_len |-> 5, body_ok |-> TRUE] @@ Benign
      @@ [correlation_header |-> h] : h \in {None, "abc-123"} }
  \cup
  { [origin |-> Client, method |-> "POST", path |-> "/api/v1/samples",
     content_length |-> Length(5),
     content_type |-> [mime |-> "text/plain", params |-> ""],
     body_len |-> 5, body_ok |-> TRUE] @@ Probing
      @@ [correlation_header |-> "abc-123"] }

CorrNext ==
  \/ TimePasses
  \/ \E r \in Reqs :
       \/ \E q \in CorrelationKinds : Receive(r, q)
       \/ StageStep(r)

\* The application of app.main serving requests with and without an
\* X-Correlation-ID header.
CorrSpec == AppInit /\ [][CorrNext]_vars

\* ------------------------------------------ the handler after a timeout

\* A GET every guard admits and a POST the content-type check rejects.
TimeoutKinds ==
  {q \in RequestKinds :
     /\ q.agents = {}
     /\ q.path = "/api/v1/samples"
     /\ \/ q.method = "GET" /\ ~q.content_length.present
        \/ /\ q.method = "POST"
           /\ q.content_type.mime = "text/plain"
           /\ q.body_len > 0 /\ q.body_ok}

\* The application, the handlers that outlive their timeout followed too.
TimeoutNext ==
  \/ TimePasses
  \/ \E r \in Reqs :
       \/ \E q \in TimeoutKinds : Receive(r, q)
       \/ StageStep(r)
       \/ Handler_Overrun(r)
       \/ Handler_Cancel(r)

TimeoutSpec == AppInit /\ [][TimeoutNext]_vars

\* The steps of request r that are the stack's own: every step but the
\* handler's completion.
Pipeline(r) == pc[r].phase # "running" /\ StageStep(r)

\* The same application under the event loop's scheduling.  A coroutine of
\* the stack that is ready to run is run (the loop serves its ready queue
\* in order), and a timer that has come due fires: the stack's steps, the
\* clock and the expiry of asyncio.wait_for are weakly fair.  Nothing is
\* assumed of the handler, which may never finish.
LiveSpec ==
  /\ AppInit
  /\ [][TimeoutNext]_vars
  /\ WF_vars(TimePasses)
  /\ \A r \in Reqs : WF_vars(Pipeline(r)) /\ WF_vars(Timeout_Expire(r))

\* ------------------------------------------ arrivals around a sweep's time

\* By how much the clock advances between two arrivals (ticks): a sweep
\* falls due a tick after a request, or with none in its window.
SweepDelays ==
  {0, 1, Ticks(CleanupIntervalSeconds) - 1, Ticks(CleanupIntervalSeconds)}

SweepNext == \E o \in Origins, d \in SweepDelays : Arrive(o, d)

SweepSpec == Init /\ [][SweepNext]_vars

\* ------------------------------- concurrent requests in the rate limiter

\* The places of RateLimitMiddleware.dispatch where the running task gives
\* up the event loop.  `await self._cleanup_old_requests()` and
\* `await self._check_rate_limit(...)` run coroutines that contain no await
\* of their own, so they finish without a task switch; `await call_next`
\* hands the request to the inner application and suspends.
SuspendsBeforeAppend(point) == point \in {"check", "call_next"}

Suspends(point) == point = "call_next"

\* The task may take a step: the loop is free or the task is running.
CanRun(r) == loop.running \in {0, r}

\* Who runs after task r has passed the given point.
After(r, point) == IF Suspends(point) THEN 0 ELSE r

\* The server creates the task of a request of origin o, in the first free
\* slot.
Conc_Receive(r, o) ==
  /\ pc[r].phase = "idle"
  /\ \A s \in 1..(r - 1) : pc[s].phase # "idle"
  /\ loop.running = 0
  /\ rq' = [rq EXCEPT ![r] = [NoRequest EXCEPT !.origin = o]]
  /\ pc' = [pc EXCEPT ![r] = [phase |-> "scheduled", at |-> 0]]
  /\ loop' = [loop EXCEPT !.local[r] = NoLocal]
  /\ UNCHANGED <<cfg, settings, now, limiterVars, events, out, deadline,
                 obs, corrVars>>

\* dispatch: await self._cleanup_old_requests()
Conc_Cleanup(r) ==
  /\ pc[r].phase = "scheduled"
  /\ CanRun(r)
  /\ LET swept == CleanupOldRequests(cfg, requests, last_cleanup, now)
     IN /\ requests' = swept.requests
        /\ last_cleanup' = swept.last_cleanup
        /\ loop' = [loop EXCEPT
                      !.running = After(r, "cleanup"),
                      !.local[r].swept = swept.last_cleanup # last_cleanup]
  /\ pc' = [pc EXCEPT ![r].phase = "check"]
  /\ UNCHANGED <<cfg, settings, now, hist, events, rq, out, deadline, obs,
                 corrVars>>

\* _check_rate_limit up to the append: current_time = time.time(), the
\* whitelist, the in-place prune of the client's list, the two limits and
\* the security event of a rejection.
Conc_Check(r) ==
  /\ pc[r].phase = "check"
  /\ CanRun(r)
  /\ LET key == GetClientIp(rq[r].origin)
         res == CheckRateLimit(cfg, requests, key, now)
         pruned == Prune(Lookup(requests, key), now - Ticks(cfg.window_size))
     IN /\ requests' = IF res.outcome = "admitted" /\ ~IsWhitelisted(cfg, key)
                       THEN Store(requests, key, pruned)
                       ELSE res.requests
        /\ events' = IF res.event = None THEN events
                     ELSE Logged(r, "", <<res.event>>)
        /\ loop' = [loop EXCEPT
                      !.running = After(r, "check"),
                      !.local[r] = [key |-> key, time |-> now,
                                    outcome |-> res.outcome,
                                    retry_after |-> res.retry_after,
                                    event |-> res.event,
                                    swept |-> @.swept]]
  /\ pc' = [pc EXCEPT ![r].phase = "append"]
  /\ UNCHANGED <<cfg, settings, now, last_cleanup, hist, rq, out, deadline,
                 obs, corrVars>>

\* The end of _check_rate_limit: client_requests.append(current_time) and
\* dispatch's await call_next(request) for an admitted request, the return
\* for a whitelisted client, the raise of RateLimitError for a rejected one.
Conc_Finish(r) ==
  /\ pc[r].phase = "append"
  /\ CanRun(r)
  /\ LET l == loop.local[r]
         admitted == l.outcome = "admitted"
     IN /\ requests' = IF admitted /\ ~IsWhitelisted(cfg, l.key)
                       THEN Store(requests, l.key,
                                  Append(Lookup(requests, l.key), l.time))
                       ELSE requests
        /\ hist' = Append(hist, [rid |-> r, key |-> l.key, time |-> l.time,
                                 outcome |-> l.outcome,
                                 retry_after |-> l.retry_after,
                                 event |-> l.event, swept |-> l.swept])
        /\ pc' = [pc EXCEPT ![r].phase =
                    IF admitted THEN "handler" ELSE "done"]
        /\ loop' = [loop EXCEPT
                      !.running = IF admitted THEN After(r, "call_next")
                                  ELSE 0]
  /\ UNCHANGED <<cfg, settings, now, last_cleanup, events, rq, out,
                 deadline, obs, corrVars>>

\* The inner application answers: call_next returns, dispatch returns.
Conc_Return(r) ==
  /\ pc[r].phase = "handler"
  /\ CanRun(r)
  /\ pc' = [pc EXCEPT ![r].phase = "done"]
  /\ loop' = [loop EXCEPT !.running = 0]
  /\ UNCHANGED <<cfg, settings, now, limiterVars, events, rq, out, deadline,
                 obs, corrVars>>

\* time.time() advances, whatever the tasks are doing.
Conc_Tick(d) ==
  /\ loop.ticks < MaxTimeSteps
  /\ now' = now + d
  /\ loop' = [loop EXCEPT !.ticks = @ + 1]
  /\ UNCHANGED <<cfg, settings, limiterVars, events, flightVars, corrVars>>

\* By how much the clock advances in one step (ticks).
ConcDelays == {1, Ticks(CleanupIntervalSeconds)}

\* Two clients, told apart by X-Forwarded-For and by X-Real-IP.
ConcOrigins == {o \in Origins : ~IsWhitelisted(cfg, GetClientIp(o))}

\* The limiter as the repository's tests construct it.
ConcConfigs == {c \in RateLimitConfigs : c.requests_per_minute <= 2}

ConcInit ==
  /\ cfg \in ConcConfigs
  /\ settings \in AppSettings
  /\ LimiterInit
  /\ FlightInit

ConcNext ==
  \/ \E r \in Reqs, o \in ConcOrigins : Conc_Receive(r, o)
  \/ \E r \in Reqs : \/ Conc_Cleanup(r)
                     \/ Conc_Check(r)
                     \/ Conc_Finish(r)
                     \/ Conc_Return(r)
  \/ \E d \in ConcDelays : Conc_Tick(d)

ConcSpec == ConcInit /\ [][ConcNext]_vars

\* ------------------------------------------- the three guards, in any order

GuardNames == {"RateLimit", "ContentType", "PayloadSize"}

\* The size and content-type checks ahead of the rate limiter.
ChecksFirstOrder == <<"ContentType", "PayloadSize", "RateLimit">>

\* The order app.main gives the three guards, outermost first.
MainOrder == SelectSeq(Stack, LAMBDA name : name \in GuardNames)

\* PayloadSizeValidationMiddleware.dispatch does not reach call_next: it
\* raises ValidationError, or request.body() raises.
PayloadSizeStops(st, q) ==
  \/ DeclaredTooLarge(st, q)
  \/ ActualTooLarge(st, q)
  \/ PayloadReadsBody(st, q) /\ ~q.body_ok

\* One guard's dispatch for request q at time t, s being the limiter's
\* state and the outcome so far: a guard inside one that has raised does
\* not run.
GuardStep(name, s, q, t) ==
  IF s.outcome # "admitted" THEN s
  ELSE CASE name = "RateLimit" ->
              LET swept == CleanupOldRequests(cfg, s.requests,
                                              s.last_cleanup, t)
                  res == CheckRateLimit(cfg, swept.requests,
                                        GetClientIp(q.origin), t)
              IN [requests |-> res.requests,
                  last_cleanup |-> swept.last_cleanup,
                  outcome |-> IF res.outcome = "admitted" THEN "admitted"
                              ELSE "rejected",
                  by |-> IF res.outcome = "admitted" THEN "" ELSE name]
         [] name = "ContentType" ->
              IF ContentTypeRejects(q)
              THEN [s EXCEPT !.outcome = "rejected", !.by = name]
              ELSE s
         [] name = "PayloadSize" ->
              IF PayloadSizeStops(settings, q)
              THEN [s EXCEPT !.outcome = "rejected", !.by = name]
              ELSE s

RECURSIVE RunFrom(_, _, _, _, _)
RunFrom(order, i, s, q, t) ==
  IF i > Len(order) THEN s
  ELSE RunFrom(order, i + 1, GuardStep(order[i], s, q, t), q, t)

\* The guards in the given order, outermost first, on request q at time t
\* with the limiter in state lim.
RunGuards(order, q, lim, t) ==
  RunFrom(order, 1,
          [requests |-> lim.requests, last_cleanup |-> lim.last_cleanup,
           outcome |-> "admitted", by |-> ""],
          q, t)

\* Two clients, told apart by X-Forwarded-For and by X-Real-IP.
OrderOrigins == {o \in Origins : o.xff # << >> \/ o.real_ip # None}

\* A request every guard admits, one the content-type check rejects, one
\* whose client disconnects while sending, one the size check rejects.
OrderKinds ==
  {[q EXCEPT !.origin = o] :
     q \in {k \in RequestKinds :
              /\ k.agents = {}
              /\ k.path = "/api/v1/samples"
              /\ \/ k.method = "GET" /\ ~k.content_length.present
                 \/ /\ k.method = "POST"
                    /\ k.content_type.mime = "text/plain"
                    /\ k.body_len > 0
                 \/ k.method = "PUT"},
     o \in OrderOrigins}

\* How long after the previous request the next one arrives (ticks).
OrderDelays == {0, Ticks(cfg.window_size), Ticks(CleanupIntervalSeconds)}

\* Request q reaches the guards d ticks after the previous one and passes
\* them in app.main's order.
Order_Arrive(q, d) ==
  /\ Len(hist) < MaxArrivals
  /\ now' = now + d
  /\ LET before == [requests |-> requests, last_cleanup |-> last_cleanup]
         after == RunGuards(MainOrder, q, before, now + d)
     IN /\ requests' = after.requests
        /\ last_cleanup' = after.last_cleanup
        /\ hist' = Append(hist,
                          [rid |-> Len(hist) + 1,
                           key |-> GetClientIp(q.origin), time |-> now + d,
                           outcome |-> after.outcome, request |-> q,
                           before |-> before, after |-> after])
  /\ UNCHANGED <<cfg, settings, loop, events, flightVars, corrVars>>

OrderNext == \E q \in OrderKinds, d \in OrderDelays : Order_Arrive(q, d)

\* The application with the tighter of its two limiter settings.
OrderInit ==
  /\ AppInit
  /\ \A c \in AppRateLimitConfigs :
       cfg.requests_per_minute <= c.requests_per_minute

OrderSpec == OrderInit /\ [][OrderNext]_vars

\* ------------------------------------------------ the client key on its own

\* What a request can carry: X-Forwarded-For split at its commas (<< >> when
\* the header is absent or the empty string), with a clean first entry, one
\* with a leading blank, an empty one, or blank as a whole; X-Real-IP
\* absent, empty, blank or set; request.client absent or with a host.
KeyOrigins ==
  [xff : {<< >>, <<"a", "proxy">>, <<" a", "proxy">>, <<"", "a">>, <<" ">>},
   real_ip : {None, "", " ", "b"},
   peer : {None, "p"}]

\* RateLimitMiddleware.dispatch resolves the client key of a request of
\* origin o.
Key_Resolve(r, o) ==
  /\ pc[r].phase = "idle"
  /\ rq' = [rq EXCEPT ![r] = [NoRequest EXCEPT !.origin = o]]
  /\ pc' = [pc EXCEPT ![r] = [phase |-> "keyed", at |-> 0]]
  /\ loop' = [loop EXCEPT !.local[r].key = GetClientIp(o)]
  /\ UNCHANGED <<cfg, settings, now, limiterVars, events, out, deadline,
                 obs, corrVars>>

KeyNext == \E r \in Reqs, o \in KeyOrigins : Key_Resolve(r, o)

KeySpec == Init /\ [][KeyNext]_vars

\* --------------------------------------- declared and actual body lengths

\* A JSON request of the given method with the given Content-Length header
\* and body.
JsonRequest(method, content_length, body_len) ==
  [origin |-> Client, method |-> method, path |-> "/api/v1/samples",
   content_length |-> content_length,
   content_type |-> [mime |-> "application/json", params |-> ""],
   body_len |-> body_len, body_ok |-> TRUE] @@ Benign @@ Anonymous

\* POSTs with the Content-Length absent, unparseable, honest, understated
\* or overstated and a body under or over the limit; a PUT and a PATCH with
\* an oversized body unannounced or understated; the GET every guard admits
\* and the POST the content-type check rejects.
PayloadKinds ==
  {JsonRequest("POST", cl, b) :
     cl \in {NoLength, BadLength, Length(5), Length(BigBody)},
     b \in {5, BigBody}}
    \cup {JsonRequest(m, cl, BigBody) :
            m \in {"PUT", "PATCH"}, cl \in {NoLength, Length(5)}}
    \cup TimeoutKinds

\* The server hands the application a request when it has answered the
\* one before.
SerialReceive(r, q) ==
  /\ \A p \in Reqs \ {r} : pc[p].phase \in {"idle", "done"}
  /\ Receive(r, q)

PayloadNext ==
  \/ TimePasses
  \/ \E r \in Reqs :
       \/ \E q \in PayloadKinds : SerialReceive(r, q)
       \/ StageStep(r)

PayloadSpec == AppInit /\ [][PayloadNext]_vars

\* ------------------------------------------------ the rate limiter's claims

NotWhitelisted(i) == hist[i].key \notin cfg.whitelist

Admitted(i) == hist[i].outcome = "admitted"

\* The earlier requests of the client of request i that arrived less than
\* span ticks before it: those in (t - span, t].
PriorArrivals(i, span) ==
  {j \in 1..(i - 1) : /\ hist[j].key = hist[i].key
                      /\ hist[j].time > hist[i].time - span}

\* The same, the request arriving exactly span ticks before included:
\* those in [t - span, t].
PriorArrivalsClosed(i, span) ==
  {j \in 1..(i - 1) : /\ hist[j].key = hist[i].key
                      /\ hist[j].time >= hist[i].time - span}

PriorAdmitted(i, span) == {j \in PriorArrivals(i, span) : Admitted(j)}

\* C1 as stated: a request of a non-whitelisted client that is, with the
\* client's earlier requests of the window_size seconds ending at it, one
\* of at most sustained_limit requests is admitted, whatever burst_limit is.
C1_AsStated ==
  \A i \in 1..Len(hist) :
    (/\ NotWhitelisted(i)
     /\ Cardinality(PriorArrivalsClosed(i, Ticks(cfg.window_size))) + 1
          <= cfg.requests_per_minute)
    => Admitted(i)

\* C1 amended: a request of a non-whitelisted client is admitted when the
\* client has issued, this request included, at most sustained_limit
\* requests in the window_size seconds ending at it and at most burst_limit
\* requests in the 10 seconds ending at it.
C1_AdmittedWithinBothLimits ==
  \A i \in 1..Len(hist) :
    (/\ NotWhitelisted(i)
     /\ Cardinality(PriorArrivals(i, Ticks(cfg.window_size))) + 1
          <= cfg.requests_per_minute
     /\ Cardinality(PriorArrivals(i, Ticks(BurstWindowSeconds))) + 1
          <= cfg.burst_limit)
    => Admitted(i)

\* A client fills its window exactly (sustained_limit requests, the oldest
\* one window_size seconds less a tick old) and the last is admitted.
C1_Witness ==
  \E i \in 1..Len(hist) :
    /\ NotWhitelisted(i)
    /\ Admitted(i)
    /\ Cardinality(PriorArrivals(i, Ticks(cfg.window_size))) + 1
         = cfg.requests_per_minute
    /\ Cardinality(PriorArrivals(i, Ticks(BurstWindowSeconds))) + 1
         <= cfg.burst_limit
    /\ cfg.requests_per_minute > 1

\* C2 as stated: the request of a non-whitelisted client that already has
\* sustained_limit admitted requests inside the window is rejected with
\* RATE_LIMIT and its retry_after is greater than 0.
C2_AsStated ==
  \A i \in 1..Len(hist) :
    (/\ NotWhitelisted(i)
     /\ Cardinality(PriorAdmitted(i, Ticks(cfg.window_size)))
          >= cfg.requests_per_minute)
    => (~Admitted(i) /\ hist[i].retry_after > 0)

\* C3: a client rejected at time t that sends nothing during the following
\* window_size seconds is admitted on its first request at or after
\* t + window_size.
C3_AdmittedAfterWindow ==
  \A i \in 1..Len(hist) : \A j \in 1..(i - 1) :
    (/\ hist[j].key = hist[i].key
     /\ ~Admitted(j)
     /\ hist[i].time >= hist[j].time + Ticks(cfg.window_size)
     /\ \A k \in (j + 1)..(i - 1) :
          hist[k].key = hist[i].key => hist[k].time <= hist[j].time)
    => Admitted(i)

C3_Witness ==
  \E i \in 1..Len(hist) : \E j \in 1..(i - 1) :
    /\ hist[j].key = hist[i].key
    /\ ~Admitted(j)
    /\ hist[i].time >= hist[j].time + Ticks(cfg.window_size)
    /\ \A k \in (j + 1)..(i - 1) :
         hist[k].key = hist[i].key => hist[k].time <= hist[j].time
    /\ Admitted(i)

\* A request of a non-whitelisted client that is below the sustained limit:
\* admitted while fewer than burst_limit requests of the client were
\* admitted in the 10 seconds ending at it, and rejected with RATE_LIMIT
\* (burst, retry_after 10) once burst_limit were.
BurstRule(i) ==
  (/\ NotWhitelisted(i)
   /\ Cardinality(PriorAdmitted(i, Ticks(cfg.window_size)))
        < cfg.requests_per_minute)
  => IF Cardinality(PriorAdmitted(i, Ticks(BurstWindowSeconds)))
          < cfg.burst_limit
     THEN Admitted(i)
     ELSE /\ hist[i].outcome = "burst_limit"
          /\ hist[i].retry_after = BurstWindowSeconds

\* C4 as stated: the first burst_limit requests inside one 10-second
\* interval are admitted and the next one inside it is rejected even though
\* the count within window_size seconds is below sustained_limit, for every
\* window_size.
C4_AsStated == \A i \in 1..Len(hist) : BurstRule(i)

\* C4 amended: the same, for a window_size of at least 10 seconds (the
\* burst count is taken over the sequence already pruned to window_size).
C4_BurstWithinLongWindow ==
  cfg.window_size >= BurstWindowSeconds => \A i \in 1..Len(hist) : BurstRule(i)

\* burst_limit requests admitted within 10 seconds and the next one
\* rejected as a burst, below the sustained limit.
C4_Witness ==
  /\ cfg.window_size >= BurstWindowSeconds
  /\ \E i \in 1..Len(hist) :
       /\ hist[i].outcome = "burst_limit"
       /\ Cardinality(PriorAdmitted(i, Ticks(BurstWindowSeconds)))
            = cfg.burst_limit
       /\ Cardinality(PriorAdmitted(i, Ticks(cfg.window_size)))
            < cfg.requests_per_minute

\* C5: a whitelisted client is never rejected, emits no rejection event and
\* never gets an entry (hence no timestamp) in the per-client map.
C5_WhitelistNeverRejected ==
  /\ \A i \in 1..Len(hist) : ~NotWhitelisted(i) => Admitted(i)
  /\ \A k \in cfg.whitelist : k \notin DOMAIN requests
  /\ \A i \in 1..Len(hist) : ~NotWhitelisted(i) => hist[i].event = None

\* A whitelisted client admitted beyond both limits.
C5_Witness ==
  \E i \in 1..Len(hist) :
    /\ ~NotWhitelisted(i)
    /\ Admitted(i)
    /\ Cardinality(PriorArrivals(i, 1)) >= cfg.requests_per_minute
    /\ Cardinality(PriorArrivals(i, 1)) >= cfg.burst_limit


\* ------------------------------------------ the assembled pipeline's claims

Received(r) == pc[r].phase # "idle"

Done(r) == pc[r].phase = "done"

HasEntered(r, name) == \E i \in 1..Len(obs[r].entered) : obs[r].entered[i] = name

EventsOf(r, type) ==
  {i \in 1..Len(events) : events[i].event_type = type /\ events[i].rid = r}

\* C6, as stated: every response that leaves the assembled pipeline of
\* app.main - a handler's result, a rate-limit, payload-size or content-type
\* rejection, the synthesized timeout response - carries the six fixed
\* security headers.
C6_AsStated ==
  \A r \in Reqs : Done(r) => SecurityHeaders \subseteq out[r].headers

\* C7: when the call inside RequestTimeoutMiddleware finishes before
\* request_timeout_seconds have passed, the middleware hands on what the call
\* produced, unmodified, and logs no request_timeout event; otherwise it logs
\* one request_timeout event and returns a response with status 408,
\* error_code REQUEST_TIMEOUT and details.timeout_seconds equal to the
\* configured timeout.
C7_TimeoutGuard ==
  \A r \in Reqs :
    LET o == obs[r]
        limit == Ticks(settings.request_timeout_seconds)
    IN o.finished_at # -1 =>
         IF o.finished_at - o.started_at < limit
         THEN /\ ~o.timed_out
              /\ o.guard_in # Nothing
              /\ o.guard_out = o.guard_in
              /\ EventsOf(r, "request_timeout") = {}
         ELSE /\ o.timed_out
              /\ o.finished_at - o.started_at = limit
              /\ o.guard_out.kind = "response"
              /\ o.guard_out.status = 408
              /\ o.guard_out.error_code = "REQUEST_TIMEOUT"
              /\ o.guard_out.timeout_seconds = settings.request_timeout_seconds
              /\ Cardinality(EventsOf(r, "request_timeout")) = 1

\* One request whose handler finished one tick under the deadline and got
\* its own response through, and one request that timed out.
C7_Witness ==
  /\ \E r \in Reqs :
       /\ Done(r)
       /\ ~obs[r].timed_out
       /\ obs[r].handler_calls = 1
       /\ obs[r].guard_out.by = "exception_handler"
       /\ obs[r].finished_at - obs[r].started_at
            = Ticks(settings.request_timeout_seconds) - 1
  /\ \E r \in Reqs : Done(r) /\ obs[r].timed_out /\ out[r].status = 408

\* The Content-Length header of r's request parses as an integer above
\* max_payload_bytes.
DeclaresOversize(r) ==
  /\ Received(r)
  /\ rq[r].content_length.present
  /\ rq[r].content_length.parses
  /\ rq[r].content_length.value > settings.max_payload_size_mb * 1024 * 1024

\* C8: a request of any method whose Content-Length parses as an integer
\* above max_payload_bytes is rejected by PayloadSizeValidationMiddleware
\* with ValidationError as soon as it reaches it, without its body being read
\* there, and its handler is never called.
C8_DeclaredOversizeRejected ==
  \A r \in Reqs :
    DeclaresOversize(r) =>
      /\ obs[r].handler_calls = 0
      /\ ~HasEntered(r, "Router")
      /\ "PayloadSize" \notin obs[r].admitted_by
      /\ HasEntered(r, "PayloadSize") =>
           /\ obs[r].rejected_by = "PayloadSize"
           /\ \A i \in 1..Len(obs[r].body_reads) :
                obs[r].body_reads[i] # "PayloadSize"
           /\ Cardinality(EventsOf(r, "oversized_request")) = 1
           /\ pc[r] = [phase |-> "raise", at |-> StageIndex("PayloadSize") - 1]
                => out[r] = ValidationError

\* A GET and a PUT that announce an oversized body, both rejected by
\* PayloadSizeValidationMiddleware.
C8_Witness ==
  \E r1, r2 \in Reqs :
    /\ DeclaresOversize(r1) /\ DeclaresOversize(r2)
    /\ rq[r1].method = "GET" /\ rq[r2].method = "PUT"
    /\ obs[r1].rejected_by = "PayloadSize" /\ Done(r1)
    /\ obs[r2].rejected_by = "PayloadSize" /\ Done(r2)

\* The content-type check has looked at r's request: a POST, PUT or PATCH on
\* a path outside the exempt list.
ContentTypeChecked(r) ==
  /\ HasEntered(r, "ContentType")
  /\ rq[r].method \in {"POST", "PUT", "PATCH"}
  /\ rq[r].path \notin {"/health", "/", "/docs", "/redoc", "/openapi.json"}

\* The MIME type of r's request, lower-cased, parameters ignored, is not in
\* the allowed set of its method.
MimeDisallowed(r) ==
  Lower(rq[r].content_type.mime)
    \notin {"application/json", "application/x-www-form-urlencoded",
            "multipart/form-data"}

ContentTypeRejected(r) ==
  /\ obs[r].rejected_by = "ContentType"
  /\ "ContentType" \notin obs[r].admitted_by
  /\ Cardinality(EventsOf(r, "invalid_content_type")) = 1
  /\ pc[r] = [phase |-> "raise", at |-> StageIndex("ContentType") - 1]
       => out[r] = ValidationError

ContentTypeAdmitted(r) ==
  /\ obs[r].rejected_by # "ContentType"
  /\ "ContentType" \in obs[r].admitted_by
  /\ EventsOf(r, "invalid_content_type") = {}

\* C9, as stated: for a POST, PUT or PATCH on a path outside the exempt
\* list, the content-type check rejects with ValidationError exactly when the
\* body is non-empty and the MIME type is not in the method's allowed set.
C9_AsStated ==
  \A r \in Reqs :
    ContentTypeChecked(r) =>
      IF rq[r].body_len > 0 /\ MimeDisallowed(r)
      THEN ContentTypeRejected(r)
      ELSE ContentTypeAdmitted(r)

\* C9, as the code has it: for a POST, PUT or PATCH on a path outside the
\* exempt list, the content-type check rejects with ValidationError exactly
\* when the body is read without error, is non-empty, and the MIME type
\* (lower-cased, parameters ignored) is not in the method's allowed set; a
\* request whose body is empty or cannot be read is admitted whatever its
\* Content-Type header.
C9_RejectsReadableBodyOnly ==
  \A r \in Reqs :
    ContentTypeChecked(r) =>
      IF rq[r].body_ok /\ rq[r].body_len > 0 /\ MimeDisallowed(r)
      THEN ContentTypeRejected(r)
      ELSE ContentTypeAdmitted(r)

\* A POST of text/plain with a body is rejected, and the same POST with an
\* empty body is admitted.
C9_Witness ==
  \E r1, r2 \in Reqs :
    /\ ContentTypeChecked(r1) /\ ContentTypeChecked(r2)
    /\ rq[r1].method = "POST" /\ rq[r2].method = "POST"
    /\ rq[r1].path = rq[r2].path
    /\ rq[r1].content_type = rq[r2].content_type
    /\ MimeDisallowed(r1)
    /\ rq[r1].body_len > 0 /\ rq[r1].body_ok /\ rq[r2].body_len = 0
    /\ ContentTypeRejected(r1) /\ Done(r1)
    /\ ContentTypeAdmitted(r2) /\ Done(r2)

Guards == {"RateLimit", "ContentType", "PayloadSize"}

\* C10: when the rate limiter, the payload-size check or the content-type
\* check rejects a request, no stage inside the rejecting guard starts and
\* the handler is never called for the request; the handler is called only
\* after all three guards have admitted the request.
C10_RejectionSkipsInnerStages ==
  \A r \in Reqs :
    LET o == obs[r]
    IN /\ o.rejected_by # "" =>
            /\ o.rejected_by \in Guards
            /\ o.handler_calls = 0
            /\ o.entered[Len(o.entered)] = o.rejected_by
            /\ \A i \in 1..Len(o.entered) :
                 StageIndex(o.entered[i]) <= StageIndex(o.rejected_by)
       /\ (o.handler_calls > 0 \/ HasEntered(r, "Router")) =>
            /\ o.admitted_by = Guards
            /\ o.rejected_by = ""

\* One request rejected by each guard one at a time is out of reach of two
\* requests: a request the rate limiter rejected after another was handled.
C10_Witness ==
  \E r1, r2 \in Reqs :
    /\ Done(r1) /\ obs[r1].handler_calls = 1 /\ obs[r1].admitted_by = Guards
    /\ Done(r2) /\ obs[r2].rejected_by = "RateLimit"
    /\ obs[r2].handler_calls = 0


\* The status the error taxonomy fixes for what stopped request r.
TaxonomyStatus(r) ==
  IF obs[r].rejected_by = "RateLimit" THEN 429
  ELSE IF obs[r].rejected_by \in {"ContentType", "PayloadSize"} THEN 400
  ELSE 408

\* C11, as stated: in the assembled application every guard rejection
\* reaches the client as a structured JSON body whose status is fixed by the
\* error type: 400 for a payload-size or content-type rejection, 429 for a
\* rate-limit rejection, 408 for a timeout.
C11_AsStated ==
  \A r \in Reqs :
    (Done(r) /\ (obs[r].rejected_by # "" \/ obs[r].timed_out))
      => /\ out[r].kind = "response"
         /\ out[r].status = TaxonomyStatus(r)



\* C12, as stated: every rate-limit rejection, sustained or burst and
\* whatever retry_after was computed, produces a response that carries a
\* Retry-After header equal to that retry_after.
C12_AsStated ==
  \A r \in Reqs :
    (Done(r) /\ obs[r].rejected_by = "RateLimit") =>
      \E i \in 1..Len(hist) :
        /\ hist[i].rid = r
        /\ "Retry-After" \in out[r].headers
        /\ out[r].retry_after = hist[i].retry_after



\* -------------------------------------------- the correlation id's claims

\* LoggingMiddleware.dispatch has returned a response for request r.
LoggingReturned(r) ==
  /\ out[r].kind = "response"
  /\ out[r].by # "global_exception_handler"
  /\ \/ Done(r)
     \/ pc[r].phase = "return" /\ pc[r].at < StageIndex("Logging")

UuidShaped(id) == \E n \in 1..4 : id = Uuid4(n)

InnerEventTypes ==
  {"auth_attempt", "auth_response", "request_failed", "rate_limit_exceeded",
   "burst_limit_exceeded", "request_timeout", "invalid_content_type",
   "oversized_request"}

\* The log record SecurityLoggingMiddleware writes after call_next.
OuterEventTypesAfterBinding == {"auth_failed"}

Detected(r, type) == Cardinality(EventsOf(r, type))

\* C15: SecurityLoggingMiddleware never alters request processing: whichever
\* of its URL-pattern, header-size and user-agent signals match, it calls the
\* next stage, the handler runs for every request that no inner stage ends
\* with an exception, and the response it returns is the response it got; it adds one security event
\* per kind of signal that matched and nothing else.
C15_DetectorOnlyLogs ==
  \A r \in Reqs :
    HasEntered(r, "SecurityLogging") =>
      /\ \/ HasEntered(r, "Logging")
         \/ pc[r] = [phase |-> "enter", at |-> StageIndex("Logging")]
      /\ obs[r].detector_out = obs[r].detector_in
      /\ (Done(r) /\ out[r].kind = "response"
            /\ out[r].by # "global_exception_handler")
           => /\ obs[r].detector_in # Nothing
              /\ out[r] = obs[r].detector_out
      /\ (Done(r) /\ out[r].by # "global_exception_handler")
           => obs[r].handler_calls = 1
      /\ Detected(r, "suspicious_request")
           = IF rq[r].url_patterns # {} THEN 1 ELSE 0
      /\ Detected(r, "large_headers")
           = IF rq[r].header_bytes > 8192 THEN 1 ELSE 0
      /\ Detected(r, "suspicious_user_agent")
           = IF rq[r].agents # {} THEN 1 ELSE 0

\* A request that matches all three signals is handled and answered 200.
C15_Witness ==
  \E r \in Reqs :
    /\ Done(r)
    /\ rq[r].url_patterns # {} /\ rq[r].header_bytes > 8192
    /\ rq[r].agents # {}
    /\ Detected(r, "suspicious_request") = 1
    /\ Detected(r, "large_headers") = 1
    /\ Detected(r, "suspicious_user_agent") = 1
    /\ obs[r].handler_calls = 1
    /\ out[r].status = 200
    /\ out[r] = obs[r].detector_out



\* ------------------------------------------------- the limiter, continued

\* The earliest timestamp left in the pruned sequence of the client of
\* request i: its oldest admitted request of the window ending at i.
Oldest(i) ==
  LET prior == PriorAdmitted(i, Ticks(cfg.window_size))
  IN CHOOSE j \in prior : \A k \in prior : hist[j].time <= hist[k].time

SustainedRejected(i) == hist[i].outcome = "rate_limit"

\* C16 as stated: on every sustained-limit rejection retry_after is
\* window_size - (now - oldest), in whole seconds, where oldest is the
\* earliest timestamp left in the client's pruned sequence, and
\* 1 <= retry_after <= window_size.
C16_AsStated ==
  \A i \in 1..Len(hist) :
    SustainedRejected(i) =>
      /\ hist[i].retry_after
           = IntSeconds(Ticks(cfg.window_size)
                          - (hist[i].time - hist[Oldest(i)].time))
      /\ 1 <= hist[i].retry_after
      /\ hist[i].retry_after <= cfg.window_size



\* The task of request r is inside the limiter's step: its sweep has run
\* and its append (or its raise) has not.
InLimiterStep(r) == pc[r].phase \in {"check", "append"}

\* The timestamps recorded for a client that lie in the window ending now.
InWindow(key) ==
  SelectSeq(Lookup(requests, key),
            LAMBDA t : t > now - Ticks(cfg.window_size))

\* The admitted requests of a client whose timestamps lie in that window.
AdmittedInWindow(key) ==
  {i \in 1..Len(hist) : /\ hist[i].key = key
                        /\ Admitted(i)
                        /\ NotWhitelisted(i)
                        /\ hist[i].time > now - Ticks(cfg.window_size)}

Keys == {GetClientIp(o) : o \in Origins}

\* C17: with task switches at suspension points only, the limiter's
\* sweep-prune-check-append step of one request is never interleaved with
\* that of another: at most one request is inside the step, no client has
\* more than sustained_limit timestamps recorded in the window, and the
\* timestamp of every admitted request of the window is recorded.
C17_LimiterStepAtomic ==
  /\ \A r \in Reqs, s \in Reqs :
       (InLimiterStep(r) /\ InLimiterStep(s)) => r = s
  /\ \A r \in Reqs : InLimiterStep(r) => loop.running = r
  /\ \A key \in Keys :
       /\ Len(InWindow(key)) <= cfg.requests_per_minute
       /\ Len(InWindow(key)) = Cardinality(AdmittedInWindow(key))
       /\ \A i \in AdmittedInWindow(key) :
            \E n \in 1..Len(InWindow(key)) : InWindow(key)[n] = hist[i].time

\* Two requests of one client are in flight together: the first waits in
\* its handler with the client's window full while the second is rejected.
C17_Witness ==
  \E r \in Reqs, s \in Reqs, i \in 1..Len(hist), j \in 1..Len(hist) :
    /\ r # s /\ i < j
    /\ pc[r].phase = "handler"
    /\ hist[i].rid = r /\ hist[j].rid = s
    /\ hist[i].key = hist[j].key
    /\ Admitted(i) /\ NotWhitelisted(i)
    /\ hist[j].outcome = "rate_limit"
    /\ Len(InWindow(hist[i].key)) = cfg.requests_per_minute



\* ------------------------------------------------- the timeout, continued

\* C18 as stated: when the deadline elapses before the handler finishes the
\* handler is cancelled, not left running: once a request has timed out its
\* handler takes no further step; and a handler is cancelled only for a
\* request that has timed out.
C18_AsStated ==
  \A r \in Reqs :
    /\ obs[r].timed_out => obs[r].handler # "overrun"
    /\ obs[r].handler = "cancelled" => obs[r].timed_out



\* ------------------------------------------------- the order of the guards

\* The six orders the three guards can be stacked in.
GuardOrders ==
  {o \in [1..3 -> GuardNames] : \A i, j \in 1..3 : o[i] = o[j] => i = j}

\* The request that arrived last.  hist only grows, so every request is the
\* latest one in the state its arrival leads to.
Latest == IF hist = << >> THEN {} ELSE {Len(hist)}

\* What the guards in the given order would have done with request i.
Reordered(order, i) ==
  RunGuards(order, hist[i].request, hist[i].before, hist[i].time)

LimiterState(s) == [requests |-> s.requests, last_cleanup |-> s.last_cleanup]

\* In the given order the rate limiter runs for request i: no check placed
\* outside it stops the request.
LimiterReached(order, i) ==
  \A k \in 1..3 :
    order[k] = "RateLimit" =>
      \A j \in 1..(k - 1) :
        /\ order[j] = "ContentType" => ~ContentTypeRejects(hist[i].request)
        /\ order[j] = "PayloadSize"
             => ~PayloadSizeStops(settings, hist[i].request)

\* C19 as stated: each of the six orders of the three guards gives the same
\* admit/reject outcome and leaves the same rate-limiter state as the order
\* of app.main.
C19_AsStated ==
  \A i \in Latest : \A order \in GuardOrders :
    /\ Reordered(order, i).outcome = hist[i].after.outcome
    /\ LimiterState(Reordered(order, i)) = LimiterState(hist[i].after)

\* C19 amended: each of the six orders gives the same admit/reject outcome
\* as the order of app.main; it leaves the same rate-limiter state when the
\* rate limiter is reached in it, and leaves the state untouched when a
\* check placed outside the limiter stops the request, whereas in app.main
\* the limiter comes first and has swept, pruned and recorded by then.
C19_GuardsCommuteInOutcome ==
  \A i \in Latest : \A order \in GuardOrders :
    /\ Reordered(order, i).outcome = hist[i].after.outcome
    /\ LimiterReached(order, i)
         => LimiterState(Reordered(order, i)) = LimiterState(hist[i].after)
    /\ ~LimiterReached(order, i)
         => LimiterState(Reordered(order, i)) = hist[i].before

\* A request the content-type check rejects: app.main's order has recorded
\* its timestamp, the order with the checks first has not.
C19_Witness ==
  \E i \in 1..Len(hist) :
    /\ ContentTypeRejects(hist[i].request)
    /\ hist[i].after.outcome = "rejected"
    /\ hist[i].after.by = "ContentType"
    /\ LimiterState(hist[i].after) # hist[i].before
    /\ \E order \in GuardOrders :
         /\ order[1] = "ContentType"
         /\ Reordered(order, i).outcome = "rejected"
         /\ LimiterState(Reordered(order, i)) = hist[i].before



\* --------------------------------------------------------------- the sweep

\* The step is the first statement of some request's dispatch.
ArrivalStep ==
  \E r \in Reqs : pc[r].phase = "scheduled" /\ pc'[r].phase = "check"

\* The step sweeps: last_cleanup moves or a tracked client disappears.
SweepStep ==
  \/ last_cleanup' # last_cleanup
  \/ \E k \in DOMAIN requests : k \notin DOMAIN requests'

\* The client's list pruned to the window that ends now.
PrunedNow(k) ==
  SelectSeq(requests[k], LAMBDA t : t > now - Ticks(cfg.window_size))

\* C20: the sweep runs only as part of a request's arrival and only when at
\* least the cleanup interval (300 s) has passed since the last sweep; when
\* it runs it prunes every tracked client's list to the window, removes the
\* clients whose list is then empty and sets last_cleanup to now, so that
\* right after a sweep no tracked client has an empty list.
C20_SweepOnArrivalAfterInterval ==
  [][ /\ SweepStep =>
           /\ ArrivalStep
           /\ now - last_cleanup >= Ticks(CleanupIntervalSeconds)
           /\ last_cleanup' = now
           /\ DOMAIN requests'
                = {k \in DOMAIN requests : PrunedNow(k) # << >>}
           /\ \A k \in DOMAIN requests' :
                requests'[k] = PrunedNow(k) /\ requests'[k] # << >>
      /\ (ArrivalStep /\ ~SweepStep) =>
           /\ now - last_cleanup < Ticks(CleanupIntervalSeconds)
           /\ requests' = requests
    ]_vars

\* Right after a sweep that removed a client: the request that swept has not
\* been checked yet, and a client admitted earlier is no longer tracked.
C20_Witness ==
  \E r \in Reqs, i \in 1..Len(hist) :
    /\ pc[r].phase = "check"
    /\ loop.local[r].swept
    /\ last_cleanup = now
    /\ now >= Ticks(CleanupIntervalSeconds)
    /\ Admitted(i)
    /\ hist[i].key \notin DOMAIN requests
    /\ \A k \in DOMAIN requests : requests[k] # << >>



\* ------------------------------------------- the limiter's two checks

\* The security events log_security_event was called with for request i.
EventTypesOf(i) ==
  LET mine == SelectSeq(events, LAMBDA e : e.rid = i)
  IN [n \in 1..Len(mine) |-> mine[n].event_type]

SustainedFull(i) ==
  Cardinality(PriorAdmitted(i, Ticks(cfg.window_size)))
    >= cfg.requests_per_minute

\* recent_requests is taken from the pruned sequence: the admitted requests
\* of the last 10 seconds that are inside the window as well.
BurstFull(i) ==
  Cardinality(PriorAdmitted(i, Ticks(BurstWindowSeconds))
                \cap PriorAdmitted(i, Ticks(cfg.window_size)))
    >= cfg.burst_limit

\* C21: the burst check is evaluated only for requests that pass the
\* sustained check: a request over both limits is rejected as a sustained
\* rejection (rate_limit_exceeded, the sustained retry_after), a burst
\* rejection is of a request under the sustained limit; every rejection
\* emits exactly one security event, of the type of the check that failed,
\* and an admitted request emits none.
C21_SustainedBeforeBurst ==
  \A i \in 1..Len(hist) :
    /\ (NotWhitelisted(i) /\ SustainedFull(i)) =>
         /\ hist[i].outcome = "rate_limit"
         /\ hist[i].retry_after
              = IntSeconds(Ticks(cfg.window_size)
                             - (hist[i].time - hist[Oldest(i)].time))
    /\ hist[i].outcome = "burst_limit" => ~SustainedFull(i) /\ BurstFull(i)
    /\ hist[i].outcome = "rate_limit" =>
         EventTypesOf(i) = <<"rate_limit_exceeded">>
    /\ hist[i].outcome = "burst_limit" =>
         EventTypesOf(i) = <<"burst_limit_exceeded">>
    /\ Admitted(i) => EventTypesOf(i) = << >>
    /\ hist[i].outcome \in {"admitted", "rate_limit", "burst_limit"}

\* A request over both limits, rejected as a sustained rejection with the
\* one event of that check.
C21_Witness ==
  \E i \in 1..Len(hist) :
    /\ NotWhitelisted(i) /\ SustainedFull(i) /\ BurstFull(i)
    /\ hist[i].outcome = "rate_limit"
    /\ hist[i].retry_after # BurstWindowSeconds
    /\ EventTypesOf(i) = <<"rate_limit_exceeded">>


\* The admitted requests of client k.
AdmittedOf(k) == {i \in 1..Len(hist) : hist[i].key = k /\ Admitted(i)}

\* C22: a request the limiter rejects appends no timestamp: every entry of a
\* client's sequence is the arrival time of one of its admitted requests,
\* so rejected requests never postpone the client's next admission: a
\* request is admitted exactly when the admitted requests before it leave
\* room under both limits, however many were rejected in between.
C22_RejectionRecordsNothing ==
  /\ \A k \in DOMAIN requests :
       /\ Len(requests[k]) <= Cardinality(AdmittedOf(k))
       /\ \A n \in 1..Len(requests[k]) :
            \E i \in AdmittedOf(k) : hist[i].time = requests[k][n]
  /\ \A i \in 1..Len(hist) :
       NotWhitelisted(i) =>
         (Admitted(i) <=> (~SustainedFull(i) /\ ~BurstFull(i)))

\* A client is rejected and, less than window_size later, admitted.
C22_Witness ==
  \E i \in 1..Len(hist), j \in 1..Len(hist) :
    /\ i < j
    /\ hist[i].key = hist[j].key
    /\ ~Admitted(i) /\ Admitted(j) /\ NotWhitelisted(j)
    /\ hist[j].time - hist[i].time < Ticks(cfg.window_size)
    /\ hist[j].time > hist[i].time
    /\ requests[hist[j].key] = <<hist[j].time>>



\* ---------------------------------------------------------- the client key

\* The three candidates of an origin, None and blanks read as empty.
KeyCandidates(o) ==
  <<IF o.xff = << >> THEN "" ELSE Strip(o.xff[1]),
    IF o.real_ip = None THEN "" ELSE Strip(o.real_ip),
    IF o.peer = None THEN "" ELSE o.peer>>

FirstNonEmpty(cands) ==
  IF \A n \in 1..Len(cands) : cands[n] = "" THEN "unknown"
  ELSE cands[CHOOSE n \in 1..Len(cands) :
               cands[n] # "" /\ \A m \in 1..(n - 1) : cands[m] = ""]

\* C23 as stated: the client key is the first non-empty of the first entry
\* of X-Forwarded-For, X-Real-IP and the peer address, "unknown" when none
\* is non-empty, and never the empty string.
C23_AsStated ==
  \A r \in Reqs :
    pc[r].phase = "keyed" =>
      /\ loop.local[r].key = FirstNonEmpty(KeyCandidates(rq[r].origin))
      /\ loop.local[r].key # ""



\* ------------------------------------------------------ the size of the body

\* The size check has r's request, a POST, PUT or PATCH whose body arrives.
BodyMeasured(r) ==
  /\ HasEntered(r, "PayloadSize")
  /\ rq[r].method \in {"POST", "PUT", "PATCH"}
  /\ rq[r].body_ok

RejectedForSize(r) ==
  /\ obs[r].rejected_by = "PayloadSize"
  /\ "PayloadSize" \notin obs[r].admitted_by
  /\ obs[r].handler_calls = 0
  /\ ~HasEntered(r, "Router")
  /\ Cardinality(EventsOf(r, "oversized_request")) = 1
  /\ pc[r] = [phase |-> "raise", at |-> StageIndex("PayloadSize") - 1]
       => out[r] = ValidationError

\* C24: for a POST, PUT or PATCH whose Content-Length is absent, unparseable
\* or not above the limit, PayloadSizeValidationMiddleware rejects the
\* request with the same ValidationError, before the handler runs, when the
\* body it reads is longer than max_payload_bytes, and admits it otherwise:
\* an unparseable Content-Length never causes a rejection by itself.
C24_ActualOversizeRejected ==
  \A r \in Reqs :
    (BodyMeasured(r) /\ ~DeclaresOversize(r)) =>
      IF rq[r].body_len > settings.max_payload_size_mb * 1024 * 1024
      THEN RejectedForSize(r)
      ELSE /\ "PayloadSize" \in obs[r].admitted_by
           /\ obs[r].rejected_by # "PayloadSize"
           /\ EventsOf(r, "oversized_request") = {}

\* An oversized body behind an understated Content-Length is rejected, and
\* a small body behind an unparseable Content-Length is handled.
C24_Witness ==
  \E r1, r2 \in Reqs :
    /\ Done(r1) /\ Done(r2)
    /\ rq[r1].content_length.present /\ rq[r1].content_length.parses
    /\ ~DeclaresOversize(r1)
    /\ rq[r1].body_len > settings.max_payload_size_mb * 1024 * 1024
    /\ obs[r1].rejected_by = "PayloadSize"
    /\ obs[r1].handler_calls = 0
    /\ rq[r2].content_length.present /\ ~rq[r2].content_length.parses
    /\ rq[r2].body_len = 5
    /\ obs[r2].handler_calls = 1



\* C25 as stated: a request whose Content-Length parses and exceeds
\* max_payload_bytes is rejected without any stage of the assembled
\* pipeline - logging, content-type check, payload-size check - having read
\* its body.
C25_AsStated ==
  \A r \in Reqs : DeclaresOversize(r) => obs[r].body_reads = << >>



\* ------------------------------------------------- timestamps in the window

\* The step is the prune and decision of request r's _check_rate_limit.
DecisionStep(r) == pc[r].phase = "check" /\ pc'[r].phase = "append"

\* Every timestamp of the sequence lies in the window that ends at time t.
WithinWindow(seq, t) ==
  \A i \in 1..Len(seq) : t - Ticks(cfg.window_size) <= seq[i] /\ seq[i] <= t

\* C26: when an admission decision is taken (after the prune of that
\* access) every timestamp t of the deciding client's sequence satisfies
\* now - window_size <= t <= now, and right after a sweep the same holds of
\* every tracked client's sequence.
C26_TimestampsWithinWindow ==
  [][ /\ \A r \in Reqs :
           DecisionStep(r) =>
             WithinWindow(Lookup(requests', loop'.local[r].key), now)
      /\ SweepStep =>
           \A k \in DOMAIN requests' : WithinWindow(requests'[k], now)
    ]_vars

\* After a sweep has run, a decision has just been taken for a client whose
\* pruned sequence still holds an earlier timestamp.
C26_Witness ==
  \E r \in Reqs :
    /\ pc[r].phase = "append"
    /\ loop.local[r].time = now
    /\ last_cleanup > 0
    /\ LET seq == Lookup(requests, loop.local[r].key)
       IN seq # << >> /\ seq[1] < now



\* ------------------------------------------------ the sliding-window bound

NonWhitelistedKeys == {k \in Keys : ~IsWhitelisted(cfg, k)}

\* The requests of client k the limiter admitted with arrival time in
\* (t - span, t].
AdmittedIn(k, t, span) ==
  {i \in 1..Len(hist) : /\ hist[i].key = k
                        /\ Admitted(i)
                        /\ hist[i].time > t - span
                        /\ hist[i].time <= t}

\* The times t to look at: an interval (t - span, t] holds no admitted
\* request that the interval ending at the last arrival at or before t does
\* not hold, so the intervals ending at an arrival are the fullest ones.
WindowEnds == {hist[i].time : i \in 1..Len(hist)}

\* At most sustained_limit admitted requests of a client in any window_size
\* interval, and no stored sequence longer than sustained_limit.
SustainedBound ==
  /\ \A k \in NonWhitelistedKeys, t \in WindowEnds :
       Cardinality(AdmittedIn(k, t, Ticks(cfg.window_size)))
         <= cfg.requests_per_minute
  /\ \A k \in DOMAIN requests : Len(requests[k]) <= cfg.requests_per_minute

\* At most burst_limit admitted requests of a client in any interval of the
\* given length.
BurstBound(span) ==
  \A k \in NonWhitelistedKeys, t \in WindowEnds :
    Cardinality(AdmittedIn(k, t, span)) <= cfg.burst_limit

\* The shorter of the window and the burst window (ticks).
EffectiveBurstWindow ==
  IF cfg.window_size < BurstWindowSeconds THEN Ticks(cfg.window_size)
  ELSE Ticks(BurstWindowSeconds)

\* C27 as stated: after any sequence of requests and sweeps, for every
\* non-whitelisted client and every time t, at most sustained_limit of the
\* client's admitted requests arrived in (t - window_size, t] and at most
\* burst_limit in (t - 10 s, t]; no stored sequence holds more than
\* sustained_limit timestamps.
C27_AsStated == SustainedBound /\ BurstBound(Ticks(BurstWindowSeconds))

\* C27 amended: the same, the burst bound taken over (t - 10 s, t] when
\* window_size is at least 10 s and over (t - window_size, t] when it is
\* shorter.
C27_AdmittedWithinBounds == SustainedBound /\ BurstBound(EffectiveBurstWindow)

\* After a sweep, a client has filled both its window (its stored sequence
\* holds sustained_limit timestamps) and its burst allowance.
C27_Witness ==
  /\ last_cleanup > 0
  /\ \E k \in NonWhitelistedKeys :
       /\ k \in DOMAIN requests
       /\ Len(requests[k]) = cfg.requests_per_minute
       /\ Cardinality(AdmittedIn(k, now, EffectiveBurstWindow))
            = cfg.burst_limit
       /\ Cardinality(AdmittedIn(k, now, Ticks(cfg.window_size)))
            = cfg.requests_per_minute



\* ------------------------------------------------- one client and the others

\* The arrivals of client k, in order.
ArrivalsOf(k) ==
  SelectSeq([i \in 1..Len(hist) |-> i], LAMBDA i : hist[i].key = k)

\* The run in which client k is the only client: the limiter, started as
\* the constructor leaves it, after the first n arrivals of k at the times
\* they have in this run, with the decision of the n-th.
RECURSIVE Alone(_, _)
Alone(k, n) ==
  IF n = 0
  THEN [requests |-> << >>, last_cleanup |-> 0, outcome |-> "",
        retry_after |-> -1]
  ELSE LET prev == Alone(k, n - 1)
           t == hist[ArrivalsOf(k)[n]].time
           swept == CleanupOldRequests(cfg, prev.requests, prev.last_cleanup, t)
           res == CheckRateLimit(cfg, swept.requests, k, t)
       IN [requests |-> res.requests, last_cleanup |-> swept.last_cleanup,
           outcome |-> res.outcome, retry_after |-> res.retry_after]

\* C28: the decisions for a client depend only on the client's own earlier
\* requests, the clock and the configuration: in every run each client gets
\* the admit/reject decisions and retry_after values it gets in the run
\* that has its requests at the same times and no request of anybody else
\* (hence the same in any two runs that agree on its request times).
C28_DecisionsIndependentOfOthers ==
  \A k \in Keys : \A n \in 1..Len(ArrivalsOf(k)) :
    LET i == ArrivalsOf(k)[n]
    IN /\ hist[i].outcome = Alone(k, n).outcome
       /\ hist[i].retry_after = Alone(k, n).retry_after

\* Between two requests of a client another client's request was admitted
\* and ran the sweep, which dropped the first client from the map.
C28_Witness ==
  \E i, j, l \in 1..Len(hist) :
    /\ i < j /\ j < l
    /\ hist[i].key = hist[l].key
    /\ hist[j].key # hist[i].key
    /\ hist[j].swept
    /\ hist[j].outcome = "admitted"
    /\ NotWhitelisted(i) /\ NotWhitelisted(j)
    /\ Admitted(i) /\ Admitted(l)
    /\ hist[l].time = hist[j].time



\* ------------------------------------------- with and without the sweep

\* The limiter that never sweeps, started as the constructor leaves it,
\* after the first n arrivals of this run, with the decision of the n-th.
RECURSIVE NeverSweeping(_)
NeverSweeping(n) ==
  IF n = 0
  THEN [requests |-> << >>, outcome |-> "", retry_after |-> -1]
  ELSE LET res == CheckRateLimit(cfg, NeverSweeping(n - 1).requests,
                                 hist[n].key, hist[n].time)
       IN [requests |-> res.requests, outcome |-> res.outcome,
           retry_after |-> res.retry_after]

\* The timestamps of the sequence that are not stale now.
Fresh(seq) == Prune(seq, now - Ticks(cfg.window_size))

\* C29: a limiter that sweeps and one that never sweeps, fed the same
\* requests at the same times, take the same admit/reject decisions with
\* the same retry_after values; their states differ only in stale
\* timestamps and in clients tracked with an empty sequence.
C29_SweepTransparent ==
  /\ \A n \in 1..Len(hist) :
       /\ hist[n].outcome = NeverSweeping(n).outcome
       /\ hist[n].retry_after = NeverSweeping(n).retry_after
  /\ LET other == NeverSweeping(Len(hist)).requests
     IN \A k \in DOMAIN requests \cup DOMAIN other :
          Fresh(Lookup(requests, k)) = Fresh(Lookup(other, k))

\* A sweep has run a tick after another client's admitted request: it kept
\* that timestamp, dropped a stale one, and the two limiters' states differ.
C29_Witness ==
  /\ \E i, j \in 1..Len(hist) :
       /\ i < j
       /\ hist[j].swept
       /\ hist[i].key # hist[j].key
       /\ Admitted(i) /\ NotWhitelisted(i)
       /\ hist[i].time > hist[j].time - Ticks(cfg.window_size)
       /\ hist[i].key \in DOMAIN requests
  /\ \E k \in DOMAIN NeverSweeping(Len(hist)).requests :
       Lookup(requests, k) # NeverSweeping(Len(hist)).requests[k]



\* ------------------------------------------------ every request is answered

\* The deadline of request r's asyncio.wait_for has been reached.
DeadlineReached(r) == deadline[r] # -1 /\ now >= deadline[r]

\* How request r ended: the handler's own result, a guard's rejection, the
\* timeout response.
Outcomes(r) ==
  (IF obs[r].handler = "finished" THEN {"handler"} ELSE {})
    \cup (IF obs[r].rejected_by # "" THEN {"rejected"} ELSE {})
    \cup (IF obs[r].timed_out THEN {"timeout"} ELSE {})

\* C30: every request that enters the pipeline eventually reaches exactly
\* one terminal outcome - the handler's own result, a guard's rejection or
\* the timeout response - even when the handler never completes: under a
\* fair timer, once request_timeout_seconds have elapsed the request is
\* finalized with the timeout response; a delivered response is final and
\* the handler is never called a second time.
C30_EveryRequestAnswered ==
  /\ \A r \in Reqs : Received(r) ~> Done(r)
  /\ \A r \in Reqs :
       DeadlineReached(r)
         ~> (Done(r) /\ out[r].status = 408
                     /\ out[r].error_code = "REQUEST_TIMEOUT")
  /\ [](\A r \in Reqs :
          /\ obs[r].handler_calls <= 1
          /\ Done(r) => /\ out[r].kind = "response"
                        /\ Cardinality(Outcomes(r)) = 1)
  /\ [][\A r \in Reqs : Done(r) => pc'[r] = pc[r] /\ out'[r] = out[r]]_vars

\* A request whose handler never completed has been answered with the
\* timeout response, its handler called once, and another request has been
\* turned away by a guard.
C30_Witness ==
  \E r, p \in Reqs :
    /\ Done(r)
    /\ obs[r].timed_out
    /\ obs[r].handler \in {"running", "overrun"}
    /\ obs[r].handler_calls = 1
    /\ out[r].status = 408
    /\ obs[r].finished_at - obs[r].started_at
         = Ticks(settings.request_timeout_seconds)
    /\ Done(p)
    /\ obs[p].rejected_by # ""


====
